---- MODULE Spec2Model ----
(***************************************************************************)
(* Lifecycle of the PlayCanvas web components: the pc-app element, its     *)
(* pc-module / pc-asset children, a chain of pc-entity elements and a      *)
(* component element, together with the part of the engine (entities,      *)
(* components, applications) that the elements drive.                      *)
(*                                                                         *)
(* The document is  document > app > { module, asset, e1 > e2 > c, e3 }    *)
(* where e1, e2, e3 are pc-entity elements and c a component element. The *)
(* shape is fixed; each link can be cut (the element is removed from its   *)
(* parent) and restored (it is appended again).  Every await of the source *)
(* is a point where other callbacks may run.                               *)
(***************************************************************************)
EXTENDS Integers, Sequences, FiniteSets, TLC

(* ------------------------------ bounds -------------------------------- *)
\* connectedCallback invocations of the pc-app element
MaxAppRuns == 2
\* connectedCallback invocations of the component element
MaxCompRuns == 2
\* engine entities ever constructed
MaxEnt == 6
\* removals / insertions of elements performed by the page
MaxDomOps == 3
\* _loadModel / _loadSkybox invocations of one element
MaxLoads == 2
\* model entities ever instantiated
MaxInst == 2
\* removals, insertions and asset changes of the pc-model and pc-sky elements
MaxModelOps == 3
\* length of the attributes string of a pc-script
MaxStrLen == 5
\* insertions and removals of the pc-script and of the script component
MaxScriptOps == 4
\* connectedCallback invocations of the pc-sound-slot
MaxSlotRuns == 2
\* insertions and removals of the pc-sound-slot
MaxSlotOps == 4
\* attribute changes, insertions and removals of the pc-camera
MaxCamOps == 3
\* addEventListener / removeEventListener calls on pc-entity elements
MaxPtrOps == 3
\* listeners of one type on one pc-entity
MaxListeners == 1
\* wheel events the FrameScene script handles
MaxWheels == 3
\* the largest animationTimer and the largest deltaTime, in seconds
MaxTimer == 8
MaxDelta == 3
\* calls of the body of the 'updated' and of the 'frameend' listener
MaxFrameEvents == 2
\* XR sessions of the demo page
MaxSessions == 2
\* workers of the mesh decoder, decode requests, buffer views of a model
MaxWorkers == 2
MaxRequests == 3
MaxViews == 2

VARIABLES
    inDoc,          \* the pc-app element is in the document
    attached,       \* attached[x]: element x is a child of its parent element
    domOps,         \* number of DOM mutations performed so far
    moduleKind,     \* moduleKind[m]: name attribute of pc-module m: "Basis" or "other"
    moduleLoaded,   \* moduleLoaded[m]: ModuleElement.loadPromise of m has resolved
    appPc,          \* appPc[r]: position of the r-th AppElement.connectedCallback
    thisApp,        \* AppElement.app (0 = null, r = the Application built by run r)
    appState,       \* appState[r]: "none" | "live" | "destroyed" for Application r
    started,        \* started[r]: Application r has had start() called
    preloaded,      \* preloaded[r]: the preload of Application r has called back
    materialField,  \* MaterialElement.material is not null
    canvas,         \* AppElement._canvas (0 = null)
    hierarchyReady, \* AppElement._hierarchyReady
    assetType,      \* type attribute of the pc-asset ("" = absent)
    assetSrc,       \* src attribute of the pc-asset, split at '.'
    assetLazy,      \* AssetElement._lazy
    assetField,     \* AssetElement.asset (0 = null, r = the Asset built in run r)
    assetKind,      \* assetKind[r]: type of Asset r ("" = not constructed)
    assetLoad,      \* assetLoad[r]: "no" | "loading" | "loaded" | "unloaded"
    registry,       \* registry[r]: Asset r was added to the registry of app r
    warnings,       \* console.warn calls of createAsset
    entityField,    \* entityField[e]: EntityElement.entity (0 = null)
    enState,        \* enState[i]: "none" | "live" | "destroyed" for engine entity i
    enParent,       \* enParent[i]: 0 none, j > 0 entity j, -r the root of app r
    enOwner,        \* enOwner[i]: the element createEntity built entity i for
    enComp,         \* enComp[i]: entity i carries the component added by c
    destroyCalls,   \* destroyCalls[i]: entity.destroy() calls made by elements
    ready,          \* ready[x]: x._readyPromise is resolved
    onReadyCalls,   \* onReadyCalls[x]: calls of x._onReady()
    readyEvents,    \* readyEvents[x]: 'ready' events dispatched on x
    cPc,            \* cPc[k]: position of the k-th ComponentElement.connectedCallback
    cEnt,           \* cEnt[k]: entityElement captured by addComponent of run k
    cComponent,     \* ComponentElement._component (0 = null, i = component on entity i)
    addCalls,       \* entity.addComponent calls made on behalf of c
    mAtt,           \* the pc-model element is a child of e1
    mAsset,         \* ModelElement._asset
    mEntity,        \* ModelElement._entity (0 = null)
    mInst,          \* mInst[j]: "none" | "live" | "destroyed" for model entity j
    mInstParent,    \* mInstParent[j]: engine entity that model entity j is a child of
    mPc,            \* mPc[k]: position of the k-th ModelElement._loadModel
    mCap,           \* mCap[k]: the Asset whose 'load' event run k listens to
    mLinks,         \* pending ready().then(addChild) callbacks of _instantiate
    mThrown,        \* exceptions thrown by the callbacks of the pc-model
    mOps,           \* mutations of the pc-model and pc-sky elements so far
    skyAtt,         \* the pc-sky element is in the document
    skyAsset,       \* SkyElement._asset
    skyScene,       \* SkyElement._scene (0 = null, r = the scene of Application r)
    skyPc,          \* skyPc[k]: position of the k-th SkyElement._loadSkybox
    skyCap,         \* skyCap[k]: the Asset whose 'load' event run k listens to
    sceneSkybox,    \* sceneSkybox[r]: scene.skybox of Application r is set
    scName,         \* the name attribute of the pc-script
    scAttrs,        \* the attributes attribute of the pc-script, a sequence of characters
    scChild,        \* the pc-script is a child of the pc-scripts
    scComponent,    \* ScriptComponentElement.component is not null
    scInst,         \* the script instance of that name on the engine component
    scCalls,        \* createScript invocations
    scCreated,      \* the arguments of the component.create calls
    scErrors,       \* console.error calls of createScript and applyAttributes
    scOps,          \* mutations of the pc-scripts subtree so far
    scObserving,    \* the MutationObserver of the pc-scripts is observing
    scEnabled,      \* ScriptElement._enabled
    scInstEnabled,  \* the enabled flag of the script instance
    scFields,       \* the fields of the script instance, an object
    scThrown,       \* exceptions that escaped a handler of the pc-scripts
    sndComponent,   \* SoundComponentElement.component is not null
    sndSlots,       \* the sound component has a slot of the name of the pc-sound-slot
    slParent,       \* parentElement of the pc-sound-slot: "none" | "sounds" | "other"
    slPc,           \* slPc[k]: position of the k-th SoundSlotElement.connectedCallback
    slAwaits,       \* slAwaits[k]: run k awaits the ready promise of the pc-sounds
    slSoundSlot,    \* SoundSlotElement.soundSlot is not null
    slPlaying,      \* play() was called on the slot
    slWarnings,     \* console.warn calls of the soundElement getter
    slThrown,       \* exceptions thrown by callbacks of the pc-sound-slot
    slOps,          \* mutations of the pc-sound-slot so far
    camAttr,        \* camAttr[a]: the text of attribute a of the pc-camera, "unset" if absent
    camField,       \* camField[a]: the field of the element behind attribute a
    camEnabled,     \* ComponentElement._enabled of the pc-camera
    camPc,          \* position of the connectedCallback of the pc-camera
    camComponent,   \* the component of the pc-camera is not null
    camProp,        \* camProp[a]: the property of the engine camera component
    camCompEnabled, \* the enabled flag of the engine camera component
    camOps,         \* mutations of the pc-camera so far
    matAttached,    \* the pc-material is a child of the pc-app
    matMapAttr,     \* MaterialElement._diffuseMap, the id of a pc-asset
    matMapped,      \* the diffuseMap of the material is set
    matListeners,   \* matListeners[a]: 'load' listeners setMap registered on Asset a
    matThrown,      \* exceptions thrown by 'load' listeners of setMap
    entName,        \* entName[e]: the name attribute of pc-entity e
    ptrListeners,   \* ptrListeners[e][t]: length of EntityElement._listeners[t]
    ptrFlags,       \* AppElement._hasPointerListeners
    ptrPicker,      \* AppElement._picker and _pointerHandlers are set
    ptrListening,   \* the pc-app listens for type:connect and type:disconnect
    ptrCanvas,      \* the event types the canvas has a handler of the pc-app for
    ptrHovered,     \* AppElement._hoveredEntity, "null" if none
    ptrLog,         \* the events the last pointer handler dispatched, in order
    ptrOps,         \* listener additions and removals so far
    fsTrack,        \* FrameScene.cameraAnim exists: [duration, loopMode] or NoTrack
    fsNoanim,       \* params.noanim
    fsScene,        \* length of the half extents of the gsplat's box, NoGsplat if none
    fsSorter,       \* the gsplat instance has a sorter when initCamera runs
    fsPc,           \* "none" | "initialized" | "camera": initialize, initCamera ran
    fsAnimating,    \* the variable animating of initCamera
    fsTimer,        \* animationTimer
    fsTime,         \* cameraAnim.time
    fsEval,         \* the times passed to spline.evaluate by the last update
    fsHandler,      \* the interaction handler is a listener of the canvas
    fsSorterOn,     \* the 'updated' listener is registered on the sorter
    fsFrameOn,      \* number of registered 'frameend' listeners of initCamera
    fsFirst,        \* calls of the 'frameend' listener body (hide, firstFrame)
    fsUpdated,      \* calls of the 'updated' listener body
    fsTarget,       \* FrameScene.targetDistance in hundredths, Null if null
    fsCurrent,      \* FrameScene.currentDistance in hundredths, Null if null
    fsDistInits,    \* how often handleWheel initialised the distances
    fsWheels,       \* wheel events so far
    xrSky,          \* the page has a pc-sky
    xrSkyAttr,      \* its type attribute, "absent" if it has none
    xrSkyType,      \* SkyElement.type, "null" if null
    xrClear,        \* the clearColor of the camera
    xrSavedClear,   \* the Color clearColor of the script
    xrSavedSky,     \* the variable skyType of the script, "null" if null
    xrAutoRender,   \* app.autoRender
    xrType,         \* app.xr.type, "none" outside a session
    xrBefore,       \* the clear colour and the sky type when the session started
    xrSessions,     \* sessions started so far
    wkCount,        \* workers.length
    wkPending,      \* wkPending[w]: worker.pending
    wkRequests,     \* wkRequests[w]: the ids that are keys of worker.requests
    wkInbox,        \* wkInbox[w]: the requests posted to worker w, not yet processed
    wkOutbox,       \* wkOutbox[w]: the responses of worker w, not yet delivered
    requestId,      \* the variable requestId
    rqCount,        \* rqCount[id]: the count of request id
    rqBad,          \* rqBad[id]: the source of request id is malformed
    rqPosted,       \* rqPosted[id]: the worker request id was posted to, 0 if none
    rqAnswered,     \* rqAnswered[id]: onmessage has run for the response to id
    rqSettled,      \* rqSettled[id]: the resolve and reject calls of its promise
    decReady,       \* MeshoptDecoder.ready has resolved
    bvPc,           \* bvPc[v]: "none" | "waiting" | "done" | "threw"
    bvExt,          \* bvExt[v]: the view has EXT_meshopt_compression
    bvBad,          \* bvBad[v]: its data is malformed
    bvBuffer,       \* bvBuffer[v]: its source buffer has resolved
    bvConts         \* bvConts[v]: the calls of the continuation, as <<err, result>>

domVars == <<inDoc, attached, domOps>>
moduleVars == <<moduleKind, moduleLoaded>>
appVars == <<appPc, thisApp, appState, started, preloaded, materialField, canvas,
             hierarchyReady>>
assetAttrs == <<assetType, assetSrc, assetLazy>>
assetVars == <<assetField, assetKind, assetLoad, registry, warnings>>
\* the variables Commit writes
engVars == <<entityField, enState, enParent, enOwner, enComp, destroyCalls,
             cComponent, ready, onReadyCalls, readyEvents>>
compVars == <<cPc, cEnt, addCalls>>

modelVars == <<mAtt, mAsset, mEntity, mInst, mInstParent, mPc, mCap, mLinks,
               mThrown, mOps>>
skyVars == <<skyAtt, skyAsset, skyScene, skyPc, skyCap, sceneSkybox>>

scriptVars == <<scName, scAttrs, scChild, scComponent, scInst, scCalls, scCreated,
                scErrors, scOps, scObserving, scEnabled, scInstEnabled, scFields,
                scThrown>>

soundVars == <<sndComponent, sndSlots, slParent, slPc, slAwaits, slSoundSlot,
               slPlaying, slWarnings, slThrown, slOps>>

cameraVars == <<camAttr, camField, camEnabled, camPc, camComponent, camProp,
                camCompEnabled, camOps>>

materialVars == <<matAttached, matMapAttr, matMapped, matListeners, matThrown>>

pointerVars == <<entName, ptrListeners, ptrFlags, ptrPicker, ptrListening, ptrCanvas,
                 ptrHovered, ptrLog, ptrOps>>

frameVars == <<fsTrack, fsNoanim, fsScene, fsSorter, fsPc, fsAnimating, fsTimer,
               fsTime, fsEval, fsHandler, fsSorterOn, fsFrameOn, fsFirst, fsUpdated,
               fsTarget, fsCurrent, fsDistInits, fsWheels>>

\* the state of the demo page's script and of the mesh decoder
xrVars == <<xrSky, xrSkyAttr, xrSkyType, xrClear, xrSavedClear, xrSavedSky,
            xrAutoRender, xrType, xrBefore, xrSessions>>

decVars == <<wkCount, wkPending, wkRequests, wkInbox, wkOutbox, requestId, rqCount,
             rqBad, rqPosted, rqAnswered, rqSettled, decReady, bvPc, bvExt, bvBad,
             bvBuffer, bvConts>>

demoVars == <<frameVars, xrVars, decVars>>

\* the state of the custom elements and of the engine objects they own
elementVars == <<domVars, moduleVars, appVars, assetAttrs, assetVars, engVars, compVars,
                 modelVars, skyVars, scriptVars, soundVars, cameraVars, materialVars,
                 pointerVars>>

notFrameVars == <<elementVars, xrVars, decVars>>
notXrVars == <<elementVars, frameVars, decVars>>
notDecVars == <<elementVars, frameVars, xrVars>>

vars == <<elementVars, demoVars>>

(* ---------------------------- the document ---------------------------- *)
Entities == {"e1", "e2", "e3"}
Nodes == {"e1", "e2", "c", "e3"}
\* the pc-module children of the pc-app
Modules == {1, 2}
AsyncEls == {"app", "e1", "e2", "c", "e3", "m", "sky", "snd", "slot", "cam"}
LoadRuns == 1..MaxLoads
InstIds == 1..MaxInst
AppRuns == 1..MaxAppRuns
CompRuns == 1..MaxCompRuns
EntIds == 1..MaxEnt

ParentOf(x) ==
    CASE x = "e1" -> "app" [] x = "e2" -> "e1" [] x = "c" -> "e2" [] x = "e3" -> "app"
\* document (tree) order of the elements below the app
TreeOrder == <<"e1", "e2", "c", "e3">>

\* Element.parentElement
parentElement(x, att) == IF att[x] THEN ParentOf(x) ELSE "none"

RECURSIVE closest(_, _, _)
\* el.closest(tag) for tag "pc-app" or "pc-entity": el itself or its nearest ancestor
closest(x, tag, att) ==
    IF x = "none" THEN "none"
    ELSE IF x = "app" THEN (IF tag = "pc-app" THEN "app" ELSE "none")
    ELSE IF x \in Entities /\ tag = "pc-entity" THEN x
    ELSE closest(parentElement(x, att), tag, att)

closestApp(x, att) == closest(parentElement(x, att), "pc-app", att)
closestEntity(x, att) == closest(parentElement(x, att), "pc-entity", att)

RECURSIVE contains(_, _, _)
\* a.contains(x): x is a or a descendant of a
contains(a, x, att) ==
    IF x = a THEN TRUE
    ELSE IF x = "app" \/ x = "none" THEN FALSE
    ELSE contains(a, parentElement(x, att), att)

\* Node.isConnected
isConnected(x, att, doc) == doc /\ contains("app", x, att)

\* a.querySelectorAll('pc-entity'), in document order
querySelectorAll(a, att) ==
    SelectSeq(TreeOrder, LAMBDA x : x \in Entities /\ x # a /\ contains(a, x, att))

\* the elements of the subtree rooted at a, in document order
Subtree(a, att) == SelectSeq(TreeOrder, LAMBDA x : contains(a, x, att))

(* ------------------- the engine and element state --------------------- *)
\* The part of the state that the synchronous callbacks read and write, as one
\* record, so that a callback is a function from state to state and a DOM
\* mutation is the composition of the callbacks it triggers.
\*   ef entityField, st enState, par enParent, own enOwner, comp enComp,
\*   dc destroyCalls, cc cComponent, rdy ready, orc onReadyCalls,
\*   rev readyEvents, ovf: MaxEnt was exceeded, thr: an exception is propagating
Cur == [ef |-> entityField, st |-> enState, par |-> enParent, own |-> enOwner,
        comp |-> enComp, dc |-> destroyCalls, cc |-> cComponent, rdy |-> ready,
        orc |-> onReadyCalls, rev |-> readyEvents, ovf |-> FALSE, thr |-> FALSE]

Commit(s) ==
    /\ entityField' = s.ef
    /\ enState' = s.st
    /\ enParent' = s.par
    /\ enOwner' = s.own
    /\ enComp' = s.comp
    /\ destroyCalls' = s.dc
    /\ cComponent' = s.cc
    /\ ready' = s.rdy
    /\ onReadyCalls' = s.orc
    /\ readyEvents' = s.rev

RECURSIVE IsUnder(_, _, _)
\* graph node j is a strict descendant of node i (i > 0 an entity, i < 0 a root)
IsUnder(j, i, par) ==
    /\ par[j] # 0
    /\ \/ par[j] = i
       \/ (par[j] > 0 /\ IsUnder(par[j], i, par))

\* Entity.destroy() of the engine: the node leaves its parent, and it and all its
\* descendants are destroyed together with their components
GraphDestroy(D, s) ==
    [s EXCEPT !.st = [j \in EntIds |-> IF j \in D /\ s.st[j] = "live"
                                       THEN "destroyed" ELSE s.st[j]],
              !.par = [j \in EntIds |-> IF j \in D THEN 0 ELSE s.par[j]],
              !.comp = [j \in EntIds |-> IF j \in D THEN FALSE ELSE s.comp[j]]]

Entity_destroy(i, s) ==
    GraphDestroy({i} \cup {j \in EntIds : IsUnder(j, i, s.par)}, s)

\* Application.destroy(): the root of application r and everything below it
Application_destroy(r, s) ==
    GraphDestroy({j \in EntIds : IsUnder(j, 0 - r, s.par)}, s)

\* GraphNode.addChild(): the child is moved below the new parent
addChild(p, i, s) == [s EXCEPT !.par[i] = p]

(* ---------------------------- AsyncElement ---------------------------- *)
\* AsyncElement._onReady without the event: a plausible slip
onReady_NoEvent(x, s) ==
    [s EXCEPT !.rdy[x] = TRUE, !.orc[x] = @ + 1]

\* AsyncElement._onReady: resolve the promise, dispatch 'ready'
onReady(x, s) ==
    [s EXCEPT !.rdy[x] = TRUE, !.orc[x] = @ + 1, !.rev[x] = @ + 1]

\* AsyncElement.ready(): _readyPromise.then(() => this); "pending" until then
readyResult(x) ==
    IF ready[x] THEN x ELSE "pending"

(* ---------------------------- EntityElement --------------------------- *)
FreeIds(s) == {i \in EntIds : s.st[i] = "none"}
Min(S) == CHOOSE i \in S : \A j \in S : i <= j

\* EntityElement.createEntity: this.entity = new Entity(name, app)
createEntity(e, app, s) ==
    IF FreeIds(s) = {} THEN [s EXCEPT !.ovf = TRUE]
    ELSE LET i == Min(FreeIds(s)) IN
         [s EXCEPT !.ef[e] = i, !.st[i] = "live", !.par[i] = 0, !.own[i] = e]

\* buildHierarchy linking every entity to the root
buildHierarchy_AllToRoot(e, app, att, s) ==
    IF s.ef[e] = 0 THEN s
    ELSE IF app = 0 THEN [s EXCEPT !.thr = TRUE]
    ELSE onReady(e, addChild(0 - app, s.ef[e], s))

\* EntityElement.buildHierarchy; app.root of a null app throws
buildHierarchy(e, app, att, s) ==
    IF s.ef[e] = 0 THEN s
    ELSE LET ce == closestEntity(e, att) IN
         IF ce # "none" /\ s.ef[ce] # 0
         THEN onReady(e, addChild(s.ef[ce], s.ef[e], s))
         ELSE IF app = 0 THEN [s EXCEPT !.thr = TRUE]
         ELSE onReady(e, addChild(0 - app, s.ef[e], s))

RECURSIVE createAll(_, _, _)
\* elements.forEach(el => el.createEntity(app))
createAll(es, app, s) ==
    IF es = <<>> THEN s
    ELSE createAll(Tail(es), app, createEntity(Head(es), app, s))

RECURSIVE buildAll(_, _, _, _)
\* elements.forEach(el => el.buildHierarchy(app)); an exception ends the loop
buildAll(es, app, att, s) ==
    IF es = <<>> \/ s.thr THEN s
    ELSE buildAll(Tail(es), app, att, buildHierarchy(Head(es), app, att, s))

\* EntityElement.connectedCallback
Entity_connectedCallback(e, att, hr, app, s) ==
    IF closestApp(e, att) = "none" \/ ~hr THEN s
    ELSE LET s1 == buildHierarchy(e, app, att, createEntity(e, app, s))
             kids == querySelectorAll(e, att)
         IN IF s1.thr THEN s1
            ELSE buildAll(kids, app, att, createAll(kids, app, s1))

\* disconnectedCallback that forgets the descendants
Entity_disconnectedCallback_KeepKids(e, att, s) ==
    IF s.ef[e] = 0 THEN s
    ELSE LET i == s.ef[e]
             s2 == Entity_destroy(i, s)
         IN [s2 EXCEPT !.dc[i] = @ + 1, !.ef[e] = 0]

\* EntityElement.disconnectedCallback
Entity_disconnectedCallback(e, att, s) ==
    IF s.ef[e] = 0 THEN s
    ELSE LET i == s.ef[e]
             kids == querySelectorAll(e, att)
             s1 == [s EXCEPT !.ef = [x \in Entities |->
                        IF \E k \in 1..Len(kids) : kids[k] = x THEN 0 ELSE s.ef[x]]]
             s2 == Entity_destroy(i, s1)
         IN [s2 EXCEPT !.dc[i] = @ + 1, !.ef[e] = 0]

(* --------------------------- ComponentElement ------------------------- *)
\* ComponentElement.disconnectedCallback: component.entity is always set
Component_disconnectedCallback(s) ==
    IF s.cc # 0
    THEN [s EXCEPT !.comp[s.cc] = FALSE, !.cc = 0]
    ELSE s

(* ----------------------------- AssetElement --------------------------- *)
\* extToType
extToType ==
    [bin |-> "binary", css |-> "css", frag |-> "shader", glb |-> "container",
     glsl |-> "shader", hdr |-> "texture", html |-> "html", jpg |-> "texture",
     js |-> "script", json |-> "json", mp3 |-> "audio", mjs |-> "script",
     ply |-> "gsplat", png |-> "texture", txt |-> "text", vert |-> "shader",
     webp |-> "texture"]

\* src.split('.').pop(): src is kept as its '.'-separated parts
extensionOf(src) == src[Len(src)]

\* the type createAsset settles on; "" when there is none
resolveType(type, src) ==
    IF type # "" THEN type
    ELSE IF extensionOf(src) \in DOMAIN extToType THEN extToType[extensionOf(src)]
    ELSE ""

\* createAsset constructing the Asset whatever the type
createAsset_NoCheck(type, src) ==
    [made |-> TRUE,
     type |-> IF resolveType(type, src) = "" THEN "null" ELSE resolveType(type, src),
     warned |-> 0]

\* AssetElement.createAsset: whether an Asset is constructed (the method returns
\* early otherwise and this.asset keeps its value), its type, the warnings logged
createAsset(type, src) ==
    IF resolveType(type, src) = ""
    THEN [made |-> FALSE, type |-> "", warned |-> 1]
    ELSE [made |-> TRUE, type |-> resolveType(type, src), warned |-> 0]

\* Asset.unload()
Asset_unload(a, load) ==
    IF a # 0 /\ load[a] = "loaded" THEN [load EXCEPT ![a] = "unloaded"] ELSE load

(* ----------------------- ModelElement, SkyElement -------------------- *)
\* AssetElement.get(id): the asset of the pc-asset element with that id ("a1"),
\* 0 when there is no such element or it has no asset
AssetElement_get(id) == IF id = "a1" THEN assetField ELSE 0

\* app.assets.load(asset): starts loading unless a load is under way
assets_load(a, load) ==
    IF load[a] \in {"no", "unloaded"} THEN [load EXCEPT ![a] = "loading"] ELSE load

\* the fields of the pc-model that _instantiate and _unloadModel write
MCur == [ent |-> mEntity, inst |-> mInst, par |-> mInstParent, links |-> mLinks,
         ovf |-> FALSE]

MCommit(ms) ==
    /\ mEntity' = ms.ent
    /\ mInst' = ms.inst
    /\ mInstParent' = ms.par
    /\ mLinks' = ms.links

\* ModelElement._unloadModel: this._entity?.destroy(); this._entity = null
unloadModel(ms) ==
    IF ms.ent = 0 THEN ms
    ELSE [ms EXCEPT !.inst[ms.ent] = "destroyed", !.par[ms.ent] = 0, !.ent = 0]

\* ModelElement._instantiate: a new render entity replaces this._entity; it is
\* added to the parent pc-entity's entity once that element is ready
instantiate(att, ms) ==
    IF {j \in InstIds : ms.inst[j] = "none"} = {} THEN [ms EXCEPT !.ovf = TRUE]
    ELSE LET j == Min({i \in InstIds : ms.inst[i] = "none"}) IN
         [ms EXCEPT !.inst[j] = "live", !.ent = j,
                    !.links = IF att THEN @ + 1 ELSE @]

RECURSIVE instantiateEach(_, _, _)
\* the 'load' listeners registered by the runs ks, fired one after the other
instantiateEach(ks, att, ms) ==
    IF ks = {} THEN ms
    ELSE instantiateEach(ks \ {Min(ks)}, att, instantiate(att, ms))

\* ModelElement.connectedCallback after this._loadModel() was started:
\* this._onReady()
modelConnected(s) == onReady("m", s)

FreeLoadRuns == {k \in LoadRuns : mPc[k] = "none"}

\* the page appends the pc-model to e1: connectedCallback starts _loadModel,
\* which unloads and then awaits the app, and signals ready
ModelAttach ==
    /\ ~mAtt
    /\ mOps < MaxModelOps
    /\ FreeLoadRuns # {}
    /\ mAtt' = TRUE
    /\ mOps' = mOps + 1
    /\ MCommit(unloadModel(MCur))
    /\ mPc' = [mPc EXCEPT ![Min(FreeLoadRuns)] = "awaitApp"]
    /\ Commit(modelConnected(Cur))
    /\ UNCHANGED <<scriptVars, soundVars, cameraVars, materialVars, pointerVars, demoVars>>
    /\ UNCHANGED <<domVars, moduleVars, appVars, assetAttrs, assetVars, compVars,
                   mAsset, mCap, mThrown, skyVars>>

\* the page removes the pc-model: disconnectedCallback unloads
ModelDetach ==
    /\ mAtt
    /\ mOps < MaxModelOps
    /\ mAtt' = FALSE
    /\ mOps' = mOps + 1
    /\ MCommit(unloadModel(MCur))
    /\ UNCHANGED <<scriptVars, soundVars, cameraVars, materialVars, pointerVars, demoVars>>
    /\ UNCHANGED <<domVars, moduleVars, appVars, assetAttrs, assetVars, engVars,
                   compVars, mAsset, mPc, mCap, mThrown, skyVars>>

\* the page sets the asset attribute: a connected element loads again
ModelSetAsset(v) ==
    /\ mOps < MaxModelOps
    /\ mOps' = mOps + 1
    /\ mAsset' = v
    /\ IF mAtt
       THEN /\ FreeLoadRuns # {}
            /\ MCommit(unloadModel(MCur))
            /\ mPc' = [mPc EXCEPT ![Min(FreeLoadRuns)] = "awaitApp"]
       ELSE UNCHANGED <<mEntity, mInst, mInstParent, mLinks, mPc>>
    /\ UNCHANGED <<scriptVars, soundVars, cameraVars, materialVars, pointerVars, demoVars>>
    /\ UNCHANGED <<domVars, moduleVars, appVars, assetAttrs, assetVars, engVars,
                   compVars, mAtt, mCap, mThrown, skyVars>>

\* _loadModel after await closestApp.ready(): instantiate a loaded asset, or
\* listen for 'load' and ask the registry of this.app to load it
ModelAfterApp(k) ==
    /\ mPc[k] = "awaitApp"
    /\ ready["app"]
    /\ LET a == AssetElement_get(mAsset) IN
       IF a = 0
       THEN /\ mPc' = [mPc EXCEPT ![k] = "done"]
            /\ UNCHANGED <<mEntity, mInst, mInstParent, mLinks, mCap, mThrown,
                           assetLoad>>
       ELSE IF assetLoad[a] = "loaded"
       THEN /\ ~instantiate(mAtt, MCur).ovf
            /\ MCommit(instantiate(mAtt, MCur))
            /\ mPc' = [mPc EXCEPT ![k] = "done"]
            /\ UNCHANGED <<mCap, mThrown, assetLoad>>
       ELSE /\ mPc' = [mPc EXCEPT ![k] = "awaitLoad"]
            /\ mCap' = [mCap EXCEPT ![k] = a]
            \* app.assets.load(asset) throws when this.app is null
            /\ assetLoad' = IF thisApp = 0 THEN assetLoad ELSE assets_load(a, assetLoad)
            /\ mThrown' = IF thisApp = 0 THEN mThrown + 1 ELSE mThrown
            /\ UNCHANGED <<mEntity, mInst, mInstParent, mLinks>>
    /\ UNCHANGED <<scriptVars, soundVars, cameraVars, materialVars, pointerVars, demoVars>>
    /\ UNCHANGED <<domVars, moduleVars, appVars, assetAttrs, assetField, assetKind,
                   registry, warnings, engVars, compVars, mAtt, mAsset, mOps,
                   skyVars>>

\* the callback of parentEntityElement.ready().then: the parent's entity gets
\* this._entity as a child; a null parent entity or a null _entity throws
ModelLink ==
    /\ mLinks > 0
    /\ ready["e1"]
    /\ mLinks' = mLinks - 1
    /\ IF entityField["e1"] = 0 \/ mEntity = 0
       THEN /\ mThrown' = mThrown + 1
            /\ UNCHANGED mInstParent
       ELSE /\ mInstParent' = [mInstParent EXCEPT ![mEntity] = entityField["e1"]]
            /\ UNCHANGED mThrown
    /\ UNCHANGED <<scriptVars, soundVars, cameraVars, materialVars, pointerVars, demoVars>>
    /\ UNCHANGED <<domVars, moduleVars, appVars, assetAttrs, assetVars, engVars,
                   compVars, mAtt, mAsset, mEntity, mInst, mPc, mCap, mOps, skyVars>>

\* SkyElement._generateSkybox: nothing without a scene
generateSkybox(scene, boxes) ==
    IF scene = 0 THEN boxes ELSE [boxes EXCEPT ![scene] = TRUE]

\* SkyElement._unloadSkybox: the skybox of the scene is destroyed and cleared
unloadSkybox(scene, boxes) ==
    IF scene = 0 THEN boxes ELSE [boxes EXCEPT ![scene] = FALSE]

\* SkyElement.connectedCallback after this._loadSkybox() was started:
\* this._onReady()
skyConnected(s) == onReady("sky", s)

FreeSkyRuns == {k \in LoadRuns : skyPc[k] = "none"}

\* the page inserts the pc-sky: connectedCallback starts _loadSkybox, which
\* awaits the app, and signals ready
SkyAttach ==
    /\ ~skyAtt
    /\ mOps < MaxModelOps
    /\ FreeSkyRuns # {}
    /\ skyAtt' = TRUE
    /\ mOps' = mOps + 1
    /\ skyPc' = [skyPc EXCEPT ![Min(FreeSkyRuns)] = "awaitApp"]
    /\ Commit(skyConnected(Cur))
    /\ UNCHANGED <<scriptVars, soundVars, cameraVars, materialVars, pointerVars, demoVars>>
    /\ UNCHANGED <<domVars, moduleVars, appVars, assetAttrs, assetVars, compVars,
                   mAtt, mAsset, mEntity, mInst, mInstParent, mPc, mCap, mLinks,
                   mThrown, skyAsset, skyScene, skyCap, sceneSkybox>>

\* the page removes the pc-sky: disconnectedCallback unloads the skybox
SkyDetach ==
    /\ skyAtt
    /\ mOps < MaxModelOps
    /\ skyAtt' = FALSE
    /\ mOps' = mOps + 1
    /\ sceneSkybox' = unloadSkybox(skyScene, sceneSkybox)
    /\ skyScene' = 0
    /\ UNCHANGED <<scriptVars, soundVars, cameraVars, materialVars, pointerVars, demoVars>>
    /\ UNCHANGED <<domVars, moduleVars, appVars, assetAttrs, assetVars, engVars,
                   compVars, mAtt, mAsset, mEntity, mInst, mInstParent, mPc, mCap,
                   mLinks, mThrown, skyAsset, skyPc, skyCap>>

\* the page sets the asset attribute: a connected element loads again
SkySetAsset(v) ==
    /\ mOps < MaxModelOps
    /\ mOps' = mOps + 1
    /\ skyAsset' = v
    /\ IF skyAtt
       THEN /\ FreeSkyRuns # {}
            /\ skyPc' = [skyPc EXCEPT ![Min(FreeSkyRuns)] = "awaitApp"]
       ELSE UNCHANGED skyPc
    /\ UNCHANGED <<scriptVars, soundVars, cameraVars, materialVars, pointerVars, demoVars>>
    /\ UNCHANGED <<domVars, moduleVars, appVars, assetAttrs, assetVars, engVars,
                   compVars, mAtt, mAsset, mEntity, mInst, mInstParent, mPc, mCap,
                   mLinks, mThrown, skyAtt, skyScene, skyCap, sceneSkybox>>

\* _loadSkybox after await closestApp.ready()
SkyAfterApp(k) ==
    /\ skyPc[k] = "awaitApp"
    /\ ready["app"]
    /\ LET a == AssetElement_get(skyAsset) IN
       IF thisApp = 0 \/ a = 0
       THEN /\ skyPc' = [skyPc EXCEPT ![k] = "done"]
            /\ UNCHANGED <<skyScene, skyCap, sceneSkybox, assetLoad>>
       ELSE IF assetLoad[a] = "loaded"
       THEN /\ skyScene' = thisApp
            /\ sceneSkybox' = generateSkybox(thisApp, sceneSkybox)
            /\ skyPc' = [skyPc EXCEPT ![k] = "done"]
            /\ UNCHANGED <<skyCap, assetLoad>>
       ELSE /\ skyScene' = thisApp
            /\ skyPc' = [skyPc EXCEPT ![k] = "awaitLoad"]
            /\ skyCap' = [skyCap EXCEPT ![k] = a]
            /\ assetLoad' = assets_load(a, assetLoad)
            /\ UNCHANGED sceneSkybox
    /\ UNCHANGED <<scriptVars, soundVars, cameraVars, materialVars, pointerVars, demoVars>>
    /\ UNCHANGED <<domVars, moduleVars, appVars, assetAttrs, assetField, assetKind,
                   registry, warnings, engVars, compVars, modelVars, skyAtt,
                   skyAsset>>

\* the engine finishes loading Asset a and fires its 'load' event: the
\* listeners of the pc-model instantiate, those of the pc-sky generate
AssetLoadEvent(a) ==
    /\ assetLoad[a] = "loading"
    /\ assetLoad' = [assetLoad EXCEPT ![a] = "loaded"]
    /\ LET ks == {k \in LoadRuns : mPc[k] = "awaitLoad" /\ mCap[k] = a}
           ms == instantiateEach(ks, mAtt, MCur)
       IN /\ ~ms.ovf
          /\ MCommit(ms)
          /\ mPc' = [k \in LoadRuns |-> IF k \in ks THEN "done" ELSE mPc[k]]
    /\ LET ks == {k \in LoadRuns : skyPc[k] = "awaitLoad" /\ skyCap[k] = a}
       IN /\ sceneSkybox' = IF ks = {} THEN sceneSkybox
                            ELSE generateSkybox(skyScene, sceneSkybox)
          /\ skyPc' = [k \in LoadRuns |-> IF k \in ks THEN "done" ELSE skyPc[k]]
    /\ UNCHANGED <<scriptVars, soundVars, cameraVars>>
    \* the listeners of setMap: this.material[property] = asset.resource
    /\ matListeners' = [matListeners EXCEPT ![a] = 0]
    /\ matMapped' = IF matListeners[a] > 0 /\ materialField THEN TRUE ELSE matMapped
    /\ matThrown' = IF matListeners[a] > 0 /\ ~materialField
                    THEN matThrown + 1 ELSE matThrown
    /\ UNCHANGED <<matAttached, matMapAttr>>
    /\ UNCHANGED <<pointerVars, demoVars>>
    /\ UNCHANGED <<domVars, moduleVars, appVars, assetAttrs, assetField, assetKind,
                   registry, warnings, engVars, compVars, mAtt, mAsset, mCap,
                   mThrown, mOps, skyAtt, skyAsset, skyScene, skyCap>>

(* ------------------------ ScriptComponentElement ----------------------- *)
\* the characters an attributes string is made of
Chars == {"{", "}", "\"", ":", "1"}
Strings == UNION {[1..n -> Chars] : n \in 0..MaxStrLen}

EmptyObject == [kind |-> "object", members |-> <<>>]
SyntaxError == [ok |-> FALSE, val |-> EmptyObject, rest |-> <<>>]

\* the number of digits a text starts with
RECURSIVE digits(_)
digits(s) == IF s # <<>> /\ s[1] = "1" THEN 1 + digits(Tail(s)) ELSE 0

\* the position of the first quote of a text at or after position i, 0 if none
RECURSIVE quoteAt(_, _)
quoteAt(s, i) ==
    IF i > Len(s) THEN 0 ELSE IF s[i] = "\"" THEN i ELSE quoteAt(s, i + 1)

\* a JSON string at the head of a text: a quote, characters, a quote
parseString(s) ==
    IF s = <<>> \/ s[1] # "\"" \/ quoteAt(s, 2) = 0 THEN SyntaxError
    ELSE [ok |-> TRUE,
          val |-> [kind |-> "string", chars |-> SubSeq(s, 2, quoteAt(s, 2) - 1)],
          rest |-> SubSeq(s, quoteAt(s, 2) + 1, Len(s))]

RECURSIVE parseValue(_)
\* a JSON value at the head of a text: a number, a string, or an object that is
\* empty or has one member (no text over Chars has a comma)
parseValue(s) ==
    IF s = <<>> THEN SyntaxError
    ELSE IF s[1] = "1"
    THEN [ok |-> TRUE, val |-> [kind |-> "number", digits |-> digits(s)],
          rest |-> SubSeq(s, digits(s) + 1, Len(s))]
    ELSE IF s[1] = "\"" THEN parseString(s)
    ELSE IF s[1] = "{"
    THEN IF Len(s) >= 2 /\ s[2] = "}"
         THEN [ok |-> TRUE, val |-> EmptyObject, rest |-> SubSeq(s, 3, Len(s))]
         ELSE LET k == parseString(Tail(s)) IN
              IF ~k.ok \/ k.rest = <<>> \/ k.rest[1] # ":" THEN SyntaxError
              ELSE LET v == parseValue(Tail(k.rest)) IN
                   IF ~v.ok \/ v.rest = <<>> \/ v.rest[1] # "}" THEN SyntaxError
                   ELSE [ok |-> TRUE,
                         val |-> [kind |-> "object",
                                  members |-> <<[key |-> k.val.chars, val |-> v.val]>>],
                         rest |-> Tail(v.rest)]
    ELSE SyntaxError

\* JSON.parse(text): the value when the whole text is one JSON value, a
\* SyntaxError otherwise
JSON_parse(s) ==
    LET r == parseValue(s) IN
    IF r.ok /\ r.rest = <<>> THEN [ok |-> TRUE, val |-> r.val]
    ELSE [ok |-> FALSE, val |-> EmptyObject]

RECURSIVE convertAttributes(_)
\* convertAttributes: a string is converted when it starts with asset:, entity:,
\* vec2:, vec3:, vec4: or color:, which no string over Chars does; an object is
\* rebuilt member by member; anything else is returned as it is
convertAttributes(item) ==
    IF item.kind = "object"
    THEN [kind |-> "object",
          members |-> [i \in DOMAIN item.members |->
                          [key |-> item.members[i].key,
                           val |-> convertAttributes(item.members[i].val)]]]
    ELSE item

\* the fields createScript and destroyScript read and write
SCur == [inst |-> scInst, calls |-> scCalls, created |-> scCreated,
         errors |-> scErrors, enabled |-> scInstEnabled, fields |-> scFields,
         thrown |-> scThrown]

SCommit(ss) ==
    /\ scInst' = ss.inst
    /\ scCalls' = ss.calls
    /\ scCreated' = ss.created
    /\ scErrors' = ss.errors
    /\ scInstEnabled' = ss.enabled
    /\ scFields' = ss.fields
    /\ scThrown' = ss.thrown

NoScript == [live |-> FALSE, properties |-> EmptyObject]

\* ScriptComponent.create(name, {properties}): a new instance unless the
\* component has a script of that name; the instance is enabled, no enabled
\* being passed, and the members of an object passed as properties are its fields
component_create(props, ss) ==
    IF ss.inst.live THEN [ss EXCEPT !.created = Append(@, props)]
    ELSE [ss EXCEPT !.created = Append(@, props),
                    !.inst = [live |-> TRUE, properties |-> props],
                    !.enabled = TRUE,
                    !.fields = IF props.kind = "object" THEN props ELSE EmptyObject]

\* createScript giving up after the parse error
createScript_ReturnOnError(hasComponent, attributes, ss) ==
    LET s1 == [ss EXCEPT !.calls = @ + 1] IN
    IF ~hasComponent THEN s1
    ELSE IF attributes = <<>> THEN component_create(EmptyObject, s1)
    ELSE IF JSON_parse(attributes).ok
    THEN component_create(convertAttributes(JSON_parse(attributes).val), s1)
    ELSE [s1 EXCEPT !.errors = @ + 1]

\* ScriptComponentElement.createScript(name, attributes)
createScript(hasComponent, attributes, ss) ==
    LET s1 == [ss EXCEPT !.calls = @ + 1] IN
    IF ~hasComponent THEN s1
    ELSE IF attributes = <<>> THEN component_create(EmptyObject, s1)
    ELSE IF JSON_parse(attributes).ok
    THEN component_create(convertAttributes(JSON_parse(attributes).val), s1)
    ELSE component_create(EmptyObject, [s1 EXCEPT !.errors = @ + 1])

\* ScriptComponentElement.destroyScript(name)
destroyScript(hasComponent, ss) ==
    IF ~hasComponent THEN ss
    ELSE [ss EXCEPT !.inst = NoScript, !.enabled = TRUE, !.fields = EmptyObject]

otherVars == <<domVars, moduleVars, appVars, assetAttrs, assetVars, engVars,
               compVars, modelVars, skyVars, soundVars, cameraVars, materialVars, pointerVars, demoVars>>

\* the value of target[key], given as a sequence of none or one value
getMember(obj, key) ==
    LET is == {i \in DOMAIN obj.members : obj.members[i].key = key} IN
    IF is = {} THEN <<>> ELSE <<obj.members[CHOOSE i \in is : TRUE].val>>

\* target[key] = val
setMember(obj, key, val) ==
    IF getMember(obj, key) = <<>>
    THEN [obj EXCEPT !.members = Append(@, [key |-> key, val |-> val])]
    ELSE [obj EXCEPT !.members =
             [i \in DOMAIN @ |-> IF @[i].key = key
                                 THEN [key |-> key, val |-> val] ELSE @[i]]]

\* the decimal digits, for the index keys of a string
DigitChars == <<"0", "1", "2", "3", "4", "5", "6", "7", "8", "9">>

\* the keys for (key in source) visits, each with source[key]: the members of
\* an object, the characters of a string by index, nothing of a number
entriesOf(source) ==
    IF source.kind = "object" THEN source.members
    ELSE IF source.kind = "string"
    THEN [i \in DOMAIN source.chars |->
             [key |-> <<DigitChars[i]>>,
              val |-> [kind |-> "string", chars |-> <<source.chars[i]>>]]]
    ELSE <<>>

RECURSIVE mergeEntries(_, _)
\* the loop of mergeDeep: an object value is merged into target[key], which is
\* made an empty object first unless it is an object; any other value is assigned
mergeEntries(target, entries) ==
    IF entries = <<>> THEN target
    ELSE LET key == Head(entries).key
             val == Head(entries).val
             old == getMember(target, key)
             t1 == IF val.kind # "object" THEN setMember(target, key, val)
                   ELSE LET sub == IF old # <<>> /\ old[1].kind = "object"
                                   THEN old[1] ELSE EmptyObject
                        IN setMember(target, key, mergeEntries(sub, entriesOf(val)))
         IN mergeEntries(t1, Tail(entries))

\* ScriptComponentElement.mergeDeep(target, source)
mergeDeep(target, source) == mergeEntries(target, entriesOf(source))

\* applyAttributes without the try / catch
applyAttributes_NoCatch(attributes, ss) ==
    IF attributes = <<>> THEN ss
    ELSE IF JSON_parse(attributes).ok
    THEN [ss EXCEPT !.fields =
             mergeDeep(@, convertAttributes(JSON_parse(attributes).val))]
    ELSE [ss EXCEPT !.thrown = @ + 1]

\* ScriptComponentElement.applyAttributes(script, attributes)
applyAttributes(attributes, ss) ==
    IF attributes = <<>> THEN ss
    ELSE IF JSON_parse(attributes).ok
    THEN [ss EXCEPT !.fields =
             mergeDeep(@, convertAttributes(JSON_parse(attributes).val))]
    ELSE [ss EXCEPT !.errors = @ + 1]

\* ScriptComponentElement.handleScriptAttributesChange(event)
handleScriptAttributesChange(name, hasComponent, attributes, ss) ==
    IF name = "" \/ ~hasComponent \/ ~ss.inst.live THEN ss
    ELSE applyAttributes(attributes, ss)

\* ScriptComponentElement.handleScriptEnableChange(event)
handleScriptEnableChange(name, hasComponent, enabled, ss) ==
    IF name = "" \/ ~hasComponent \/ ~ss.inst.live THEN ss
    ELSE [ss EXCEPT !.enabled = enabled]

\* texts a page script assigns to the attributes attribute
EditTexts == { <<"{", "\"", "\"", ":", "1", "}">>,
               <<"{", "\"", "\"", ":", "{", "\"", "1", "\"", ":", "1", "}", "}">>,
               <<"\"", "1", "\"">>,
               <<"{", "\"", "\"", ":">>,
               <<"1", "}">> }

\* the page sets the attributes attribute of the pc-script: the
\* scriptattributeschange event bubbles to the pc-scripts when it is the parent
ScriptSetAttributes(v) ==
    /\ scOps < MaxScriptOps
    /\ scOps' = scOps + 1
    /\ scAttrs' = v
    /\ SCommit(IF scChild
               THEN handleScriptAttributesChange(scName, scComponent, v, SCur)
               ELSE SCur)
    /\ UNCHANGED <<otherVars, scName, scChild, scComponent, scObserving, scEnabled>>

\* the page sets the enabled attribute of the pc-script: enabled is false for
\* the text false, true for any other; the scriptenablechange event bubbles
ScriptSetEnabled(v) ==
    /\ scOps < MaxScriptOps
    /\ scOps' = scOps + 1
    /\ scEnabled' = (v # "false")
    /\ SCommit(IF scChild
               THEN handleScriptEnableChange(scName, scComponent, v # "false", SCur)
               ELSE SCur)
    /\ UNCHANGED <<otherVars, scName, scAttrs, scChild, scComponent, scObserving>>

\* the entity gets its script component: initComponent creates the script of
\* every pc-script child that has a name
ScriptsAddComponent ==
    /\ ~scComponent
    /\ scOps < MaxScriptOps
    /\ scOps' = scOps + 1
    /\ scComponent' = TRUE
    /\ SCommit(IF scChild /\ scName # "" THEN createScript(TRUE, scAttrs, SCur)
               ELSE SCur)
    /\ UNCHANGED <<otherVars, scName, scAttrs, scChild, scObserving, scEnabled>>

\* the pc-scripts is removed: the observer is disconnected, the component
\* goes, and its scripts with it
ScriptsDisconnect ==
    /\ scComponent
    /\ scOps < MaxScriptOps
    /\ scOps' = scOps + 1
    /\ scObserving' = FALSE
    /\ scComponent' = FALSE
    /\ scInst' = NoScript
    /\ scInstEnabled' = TRUE
    /\ scFields' = EmptyObject
    /\ UNCHANGED <<otherVars, scName, scAttrs, scChild, scCalls, scCreated, scErrors,
                   scEnabled, scThrown>>

\* handleMutations, added node: the page appends the pc-script
ScriptAdded ==
    /\ ~scChild
    /\ scOps < MaxScriptOps
    /\ scOps' = scOps + 1
    /\ scChild' = TRUE
    /\ SCommit(IF scObserving /\ scName # ""
               THEN createScript(scComponent, scAttrs, SCur) ELSE SCur)
    /\ UNCHANGED <<otherVars, scName, scAttrs, scComponent, scObserving, scEnabled>>

\* handleMutations, removed node: the page removes the pc-script
ScriptRemoved ==
    /\ scChild
    /\ scOps < MaxScriptOps
    /\ scOps' = scOps + 1
    /\ scChild' = FALSE
    /\ SCommit(IF scObserving /\ scName # ""
               THEN destroyScript(scComponent, SCur) ELSE SCur)
    /\ UNCHANGED <<otherVars, scName, scAttrs, scComponent, scObserving, scEnabled>>

(* --------------------------- SoundSlotElement -------------------------- *)
SlotRuns == 1..MaxSlotRuns
FreeSlotRuns == {k \in SlotRuns : slPc[k] = "none"}

\* the soundElement getter: the parent when it is a pc-sounds, else a warning
\* and null
soundElement(parent) == IF parent = "sounds" THEN "sounds" ELSE "null"

soundWarning(parent) == IF parent = "sounds" THEN 0 ELSE 1

notSoundVars == <<domVars, moduleVars, appVars, assetAttrs, assetVars, compVars,
                  modelVars, skyVars, scriptVars, cameraVars, materialVars, pointerVars, demoVars>>

\* the connectedCallback of the pc-sounds runs to its end: the entity has the
\* sound component and the element is ready
SoundsReady ==
    /\ ~ready["snd"]
    /\ sndComponent' = TRUE
    /\ Commit(onReady("snd", Cur))
    /\ UNCHANGED <<notSoundVars, sndSlots, slParent, slPc, slAwaits, slSoundSlot,
                   slPlaying, slWarnings, slThrown, slOps>>

\* the page appends the pc-sound-slot to a pc-sounds or to another element:
\* connectedCallback runs up to await this.soundElement?.ready()
SlotAttach(p) ==
    /\ slParent = "none"
    /\ slOps < MaxSlotOps
    /\ FreeSlotRuns # {}
    /\ slOps' = slOps + 1
    /\ slParent' = p
    /\ slWarnings' = slWarnings + soundWarning(p)
    /\ slPc' = [slPc EXCEPT ![Min(FreeSlotRuns)] = "await"]
    /\ slAwaits' = [slAwaits EXCEPT ![Min(FreeSlotRuns)] = (soundElement(p) = "sounds")]
    /\ UNCHANGED <<notSoundVars, engVars, sndComponent, sndSlots, slSoundSlot,
                   slPlaying, slThrown>>

\* connectedCallback after the await: this.soundElement.component.addSlot,
\* this.asset = this._asset, this.soundSlot.play(), this._onReady(); addSlot
\* returns null when the component has a slot of that name
SlotAfterAwait(k) ==
    /\ slPc[k] = "await"
    /\ slAwaits[k] => ready["snd"]
    /\ slWarnings' = slWarnings + soundWarning(slParent)
    /\ IF soundElement(slParent) = "null" \/ ~sndComponent
       THEN \* TypeError: this.soundElement is null, or its component is
            /\ slPc' = [slPc EXCEPT ![k] = "threw"]
            /\ slThrown' = slThrown + 1
            /\ UNCHANGED <<engVars, sndSlots, slSoundSlot, slPlaying>>
       ELSE IF sndSlots
       THEN \* addSlot returned null: this.soundSlot.play() throws
            /\ slPc' = [slPc EXCEPT ![k] = "threw"]
            /\ slThrown' = slThrown + 1
            /\ slSoundSlot' = FALSE
            /\ UNCHANGED <<engVars, sndSlots, slPlaying>>
       ELSE /\ slPc' = [slPc EXCEPT ![k] = "done"]
            /\ sndSlots' = TRUE
            /\ slSoundSlot' = TRUE
            /\ slPlaying' = TRUE
            /\ Commit(onReady("slot", Cur))
            /\ UNCHANGED slThrown
    /\ UNCHANGED <<notSoundVars, sndComponent, slParent, slAwaits, slOps>>

\* the page removes the pc-sound-slot from its parent: disconnectedCallback
\* reads this.soundElement.component with parentElement already null
SlotDetach ==
    /\ slParent # "none"
    /\ slOps < MaxSlotOps
    /\ slOps' = slOps + 1
    /\ slParent' = "none"
    /\ slWarnings' = slWarnings + soundWarning("none")
    /\ slThrown' = slThrown + 1
    /\ UNCHANGED <<notSoundVars, engVars, sndComponent, sndSlots, slPc, slAwaits,
                   slSoundSlot, slPlaying>>

\* the page removes the pc-sounds with its children: its disconnectedCallback
\* removes the sound component, slots included, and sets it to null; the
\* disconnectedCallback of a pc-sound-slot child then calls removeSlot on null
SoundsDisconnect ==
    /\ sndComponent
    /\ slOps < MaxSlotOps
    /\ slOps' = slOps + 1
    /\ sndComponent' = FALSE
    /\ sndSlots' = FALSE
    /\ slThrown' = IF slParent = "sounds" THEN slThrown + 1 ELSE slThrown
    /\ UNCHANGED <<notSoundVars, engVars, slParent, slPc, slAwaits, slSoundSlot,
                   slPlaying, slWarnings>>

(* ------------------------ CameraComponentElement ----------------------- *)
\* the attributes of the pc-camera that attributeChangedCallback parses by
\* comparing the text
BoolAttrs == {"clear-color-buffer", "clear-depth-buffer", "clear-stencil-buffer",
              "cull-faces", "flip-faces", "frustum-culling"}
AttrTexts == {"", "true", "false"}

\* the fields as the constructor sets them
CameraDefaults ==
    [a \in BoolAttrs |-> a \in {"clear-color-buffer", "clear-depth-buffer",
                                "cull-faces", "frustum-culling"}]

\* the value attributeChangedCallback computes for attribute name from the text
parseCameraBool(name, newValue) ==
    IF name = "flip-faces" THEN newValue # "true" ELSE newValue # "false"

\* ComponentElement.attributeChangedCallback, case enabled
parseEnabled(newValue) == newValue # "false"

notCameraVars == <<domVars, moduleVars, appVars, assetAttrs, assetVars, compVars,
                   modelVars, skyVars, scriptVars, soundVars, materialVars,
                   pointerVars, demoVars>>

\* the page sets attribute name of the pc-camera: the setter stores the value
\* and forwards it to the component when there is one
CameraSetAttribute(name, newValue) ==
    /\ camOps < MaxCamOps
    /\ camOps' = camOps + 1
    /\ camAttr' = [camAttr EXCEPT ![name] = newValue]
    /\ camField' = [camField EXCEPT ![name] = parseCameraBool(name, newValue)]
    /\ camProp' = IF camComponent
                  THEN [camProp EXCEPT ![name] = parseCameraBool(name, newValue)]
                  ELSE camProp
    /\ UNCHANGED <<notCameraVars, engVars, camEnabled, camPc, camComponent,
                   camCompEnabled>>

\* the page sets the enabled attribute of the pc-camera
CameraSetEnabled(newValue) ==
    /\ camOps < MaxCamOps
    /\ camOps' = camOps + 1
    /\ camEnabled' = parseEnabled(newValue)
    /\ camCompEnabled' = IF camComponent THEN parseEnabled(newValue) ELSE camCompEnabled
    /\ UNCHANGED <<notCameraVars, engVars, camAttr, camField, camPc, camComponent,
                   camProp>>

\* the page inserts the pc-camera below a pc-entity: connectedCallback runs up
\* to its awaits
CameraAttach ==
    /\ camPc = "none"
    /\ camOps < MaxCamOps
    /\ camOps' = camOps + 1
    /\ camPc' = "await"
    /\ UNCHANGED <<notCameraVars, engVars, camAttr, camField, camEnabled,
                   camComponent, camProp, camCompEnabled>>

\* addComponent after await entityElement.ready(): the component is created
\* from getInitialComponentData(), which has the camera fields and no enabled,
\* so the component is enabled
CameraAddComponent ==
    /\ camPc = "await"
    /\ camPc' = "added"
    /\ camComponent' = TRUE
    /\ camProp' = camField
    /\ camCompEnabled' = TRUE
    /\ UNCHANGED <<notCameraVars, engVars, camAttr, camField, camEnabled, camOps>>

\* connectedCallback after await this.addComponent(): initComponent, _onReady
CameraFinish ==
    /\ camPc = "added"
    /\ camPc' = "done"
    /\ Commit(onReady("cam", Cur))
    /\ UNCHANGED <<notCameraVars, camAttr, camField, camEnabled, camComponent,
                   camProp, camCompEnabled, camOps>>

(* ---------------------------- MaterialElement -------------------------- *)
\* MaterialElement.setMap(map, property) with the asset AssetElement.get finds:
\* a loaded asset is assigned, for any other a 'load' listener is registered
setMap(map, hasMaterial, asset, load, ms) ==
    IF ~hasMaterial \/ map # "a1" \/ asset = 0 THEN ms
    ELSE IF load[asset] = "loaded" THEN [ms EXCEPT !.mapped = TRUE]
    ELSE [ms EXCEPT !.listeners[asset] = @ + 1]

\* the page sets the diffuse-map attribute of the pc-material
MaterialSetMap(v) ==
    /\ domOps < MaxDomOps
    /\ domOps' = domOps + 1
    /\ matMapAttr' = v
    /\ LET res == setMap(v, materialField, assetField, assetLoad,
                         [mapped |-> matMapped, listeners |-> matListeners])
       IN /\ matMapped' = res.mapped
          /\ matListeners' = res.listeners
    /\ UNCHANGED <<inDoc, attached, moduleVars, appVars, assetAttrs, assetVars,
                   engVars, compVars, modelVars, skyVars, scriptVars, soundVars,
                   cameraVars, pointerVars, demoVars, matAttached, matThrown>>

\* the page removes the pc-material from the pc-app: disconnectedCallback
\* destroys the material and sets it to null
MaterialDetach ==
    /\ matAttached
    /\ domOps < MaxDomOps
    /\ domOps' = domOps + 1
    /\ matAttached' = FALSE
    /\ materialField' = FALSE
    /\ matMapped' = FALSE
    /\ UNCHANGED <<inDoc, attached, moduleVars, appPc, thisApp, appState, started,
                   preloaded, canvas, hierarchyReady, assetAttrs, assetVars, engVars,
                   compVars, modelVars, skyVars, scriptVars, soundVars, cameraVars, pointerVars, demoVars,
                   matMapAttr, matListeners, matThrown>>

(* ------------------------------ AppElement ---------------------------- *)
FreeAppRuns == {r \in AppRuns : appPc[r] = "none"}
FreeCompRuns == {k \in CompRuns : cPc[k] = "none"}

\* WasmModule.getInstance calls back for pc-module m: loadModule returns,
\* loadPromise resolves
WasmCallback(m) ==
    /\ moduleKind[m] # "Basis"
    /\ ~moduleLoaded[m]
    /\ moduleLoaded' = [moduleLoaded EXCEPT ![m] = TRUE]
    /\ UNCHANGED <<modelVars, skyVars, scriptVars, soundVars, cameraVars, materialVars, pointerVars, demoVars>>
    /\ UNCHANGED <<domVars, moduleKind, appVars, assetAttrs, assetVars, engVars,
                   compVars>>

\* the continuation of run r waiting for the first load promise only
modulesAwaited_FirstOnly(r) == moduleLoaded[1]

\* what the continuation of run r waits for: Promise.all of the load promises
\* of the pc-module children of the pc-app
modulesAwaited(r) == \A m \in Modules : moduleLoaded[m]

\* AppElement.connectedCallback after the await: canvas, Application, assets,
\* materials, entities, hierarchy, preload (which starts loading the registered
\* assets that are not lazy)
AppAfterModules(r) ==
    /\ appPc[r] = "modules"
    /\ modulesAwaited(r)
    /\ LET made == createAsset(assetType, assetSrc)
           asset == IF made.made THEN r ELSE assetField
           els == querySelectorAll("app", attached)
           s == buildAll(els, r, attached, createAll(els, r, Cur))
       IN /\ ~s.ovf
          /\ canvas' = r
          /\ thisApp' = r
          /\ appState' = [appState EXCEPT ![r] = "live"]
          /\ assetField' = asset
          /\ assetKind' = IF made.made THEN [assetKind EXCEPT ![r] = made.type]
                          ELSE assetKind
          /\ warnings' = warnings + made.warned
          /\ registry' = [registry EXCEPT ![r] = (asset # 0)]
          /\ assetLoad' = IF asset # 0 /\ ~assetLazy /\ assetLoad[asset] # "loaded"
                          THEN [assetLoad EXCEPT ![asset] = "loading"]
                          ELSE assetLoad
          /\ materialField' = matAttached
          /\ Commit(s)
          /\ hierarchyReady' = TRUE
          /\ appPc' = [appPc EXCEPT ![r] = "preload"]
    /\ UNCHANGED <<modelVars, skyVars, scriptVars, soundVars, cameraVars>>
    \* createMaterial of the pc-material child: new StandardMaterial, setMap
    /\ LET made == createAsset(assetType, assetSrc)
           asset == IF made.made THEN r ELSE assetField
           res == setMap(matMapAttr, matAttached, asset, assetLoad,
                         [mapped |-> FALSE, listeners |-> matListeners])
       IN /\ matMapped' = res.mapped
          /\ matListeners' = res.listeners
    /\ UNCHANGED <<matAttached, matMapAttr, matThrown>>
    \* _pickerCreate
    /\ ptrPicker' = TRUE
    /\ ptrListening' = TRUE
    \* the handlers attached so far were attached to an earlier canvas
    /\ ptrCanvas' = {}
    /\ UNCHANGED <<entName, ptrListeners, ptrFlags, ptrHovered, ptrLog, ptrOps>>
    /\ UNCHANGED demoVars
    /\ UNCHANGED <<domVars, moduleVars, started, preloaded, assetAttrs, compVars>>

\* the preload callback signalling ready without starting the application
preloadCallback_NoStart(app, s) ==
    [thr |-> FALSE, start |-> 0, s |-> onReady("app", s)]

\* the callback given to app.preload: this.app.start() throws on a null app
preloadCallback(app, s) ==
    IF app = 0 THEN [thr |-> TRUE, start |-> 0, s |-> s]
    ELSE [thr |-> FALSE, start |-> app, s |-> onReady("app", s)]

\* the preload of Application r is complete: every registered asset that is not
\* lazy has loaded
preloadComplete(r) ==
    (registry[r] /\ ~assetLazy) => assetLoad[r] \in {"loaded", "unloaded"}

\* the preload of Application r completes and calls back
AppPreloadCallback(r) ==
    /\ appPc[r] = "preload"
    /\ preloadComplete(r)
    /\ LET res == preloadCallback(thisApp, Cur)
       IN /\ appPc' = [appPc EXCEPT ![r] = IF res.thr THEN "threw" ELSE "done"]
          /\ started' = [x \in AppRuns |-> started[x] \/ x = res.start]
          /\ Commit(res.s)
    /\ preloaded' = [preloaded EXCEPT ![r] = TRUE]
    /\ UNCHANGED <<modelVars, skyVars, scriptVars, soundVars, cameraVars, materialVars, pointerVars, demoVars>>
    /\ UNCHANGED <<domVars, moduleVars, thisApp, appState, materialField, canvas,
                   hierarchyReady, assetAttrs, assetVars, compVars>>

(* --------------------------- DOM mutations ---------------------------- *)
RECURSIVE disconnectAll(_, _, _)
\* the disconnectedCallback reactions of the elements xs, in document order
disconnectAll(xs, att, s) ==
    IF xs = <<>> THEN s
    ELSE LET x == Head(xs)
             s1 == IF x \in Entities THEN Entity_disconnectedCallback(x, att, s)
                   ELSE Component_disconnectedCallback(s)
         IN disconnectAll(Tail(xs), att, s1)

RECURSIVE connectAll(_, _, _, _, _)
\* the connectedCallback reactions of the pc-entity elements among xs, in
\* document order; an exception ends one callback and is reported, the next
\* reaction still runs
connectAll(xs, att, hr, app, s) ==
    IF xs = <<>> THEN s
    ELSE LET x == Head(xs)
             s1 == IF x \in Entities
                   THEN [Entity_connectedCallback(x, att, hr, app, s) EXCEPT !.thr = FALSE]
                   ELSE s
         IN connectAll(Tail(xs), att, hr, app, s1)

InSeq(x, xs) == \E k \in 1..Len(xs) : xs[k] = x

\* AppElement.disconnectedCallback: destroy and forget the Application, drop
\* the canvas
App_disconnectedCallback(s) ==
    [app |-> 0,
     state |-> IF thisApp # 0 THEN [appState EXCEPT ![thisApp] = "destroyed"]
               ELSE appState,
     canvas |-> 0,
     s |-> IF thisApp # 0 THEN Application_destroy(thisApp, s) ELSE s]

\* the page removes the pc-app element from the document
DetachApp ==
    /\ inDoc
    /\ domOps < MaxDomOps
    /\ inDoc' = FALSE
    /\ domOps' = domOps + 1
    /\ LET res == App_disconnectedCallback(Cur)
       IN /\ thisApp' = res.app
          /\ appState' = res.state
          /\ canvas' = res.canvas
          /\ Commit(disconnectAll(Subtree("app", attached), attached, res.s))
    \* AssetElement.disconnectedCallback (destroyAsset)
    /\ assetLoad' = Asset_unload(assetField, assetLoad)
    /\ assetField' = 0
    \* MaterialElement.disconnectedCallback
    /\ materialField' = FALSE
    /\ UNCHANGED <<modelVars, skyVars, scriptVars, soundVars, cameraVars>>
    /\ matMapped' = FALSE
    /\ UNCHANGED <<matAttached, matMapAttr, matListeners, matThrown>>
    \* _pickerDestroy
    /\ ptrPicker' = FALSE
    /\ ptrCanvas' = {}
    /\ UNCHANGED <<entName, ptrListeners, ptrFlags, ptrListening, ptrHovered, ptrLog,
                   ptrOps>>
    /\ UNCHANGED demoVars
    /\ UNCHANGED <<attached, moduleVars, appPc, started, preloaded, hierarchyReady,
                   assetAttrs, assetKind, registry, warnings, compVars>>

\* the page inserts the pc-app element into the document again
AttachApp ==
    /\ ~inDoc
    /\ domOps < MaxDomOps
    /\ FreeAppRuns # {}
    /\ LET xs == Subtree("app", attached)
           s == connectAll(xs, attached, hierarchyReady, thisApp, Cur)
       IN /\ ~s.ovf
          /\ InSeq("c", xs) => FreeCompRuns # {}
          /\ Commit(s)
          /\ cPc' = IF InSeq("c", xs)
                    THEN [cPc EXCEPT ![Min(FreeCompRuns)] = "awaitApp"]
                    ELSE cPc
    /\ inDoc' = TRUE
    /\ domOps' = domOps + 1
    /\ appPc' = [appPc EXCEPT ![Min(FreeAppRuns)] = "modules"]
    /\ UNCHANGED <<modelVars, skyVars, scriptVars, soundVars, cameraVars, materialVars, pointerVars, demoVars>>
    /\ UNCHANGED <<attached, moduleVars, thisApp, appState, started, preloaded,
                   materialField, canvas, hierarchyReady, assetAttrs, assetVars,
                   cEnt, addCalls>>

\* the page removes element x (a pc-entity or the component element) from its
\* parent; the reactions run when x was in the document
Detach(x) ==
    /\ attached[x]
    /\ domOps < MaxDomOps
    /\ LET att == [attached EXCEPT ![x] = FALSE]
           s == IF isConnected(x, attached, inDoc)
                THEN disconnectAll(Subtree(x, att), att, Cur)
                ELSE Cur
       IN /\ attached' = att
          /\ Commit(s)
    /\ domOps' = domOps + 1
    /\ UNCHANGED <<modelVars, skyVars, scriptVars, soundVars, cameraVars, materialVars, pointerVars, demoVars>>
    /\ UNCHANGED <<inDoc, moduleVars, appVars, assetAttrs, assetVars, compVars>>

\* the page appends element x to its parent again
Attach(x) ==
    /\ ~attached[x]
    /\ domOps < MaxDomOps
    /\ LET att == [attached EXCEPT ![x] = TRUE]
           conn == isConnected(x, att, inDoc)
           xs == IF conn THEN Subtree(x, att) ELSE <<>>
           s == connectAll(xs, att, hierarchyReady, thisApp, Cur)
       IN /\ ~s.ovf
          /\ InSeq("c", xs) => FreeCompRuns # {}
          /\ attached' = att
          /\ Commit(s)
          /\ cPc' = IF InSeq("c", xs)
                    THEN [cPc EXCEPT ![Min(FreeCompRuns)] = "awaitApp"]
                    ELSE cPc
    /\ domOps' = domOps + 1
    /\ UNCHANGED <<modelVars, skyVars, scriptVars, soundVars, cameraVars, materialVars, pointerVars, demoVars>>
    /\ UNCHANGED <<inDoc, moduleVars, appVars, assetAttrs, assetVars, cEnt, addCalls>>

(* ------------------- ComponentElement.connectedCallback --------------- *)
\* the continuation running without waiting for the app
appReadyAwaited_NoAwait(k) == TRUE

\* await this.closestApp?.ready(): the element is connected below the app when
\* connectedCallback starts, so closestApp is the app
appReadyAwaited(k) == ready["app"]

\* addComponent up to its await: the entity element is looked up now
CompAfterApp(k) ==
    /\ cPc[k] = "awaitApp"
    /\ appReadyAwaited(k)
    /\ LET ent == closestEntity("c", attached)
       IN /\ cEnt' = [cEnt EXCEPT ![k] = ent]
          /\ cPc' = [cPc EXCEPT ![k] = IF ent = "none" THEN "awaitAdd"
                                       ELSE "awaitEntity"]
    /\ UNCHANGED <<modelVars, skyVars, scriptVars, soundVars, cameraVars, materialVars, pointerVars, demoVars>>
    /\ UNCHANGED <<domVars, moduleVars, appVars, assetAttrs, assetVars, engVars,
                   addCalls>>

\* await entityElement.ready()
entityReadyAwaited(k) == ready[cEnt[k]]

\* Entity.addComponent of the engine: null when the entity has the component
Entity_addComponent(i, s) ==
    IF s.comp[i] THEN [s EXCEPT !.cc = 0]
    ELSE [s EXCEPT !.comp[i] = TRUE, !.cc = i]

\* addComponent after its await: entityElement.entity.addComponent(name, data)
CompAfterEntity(k) ==
    /\ cPc[k] = "awaitEntity"
    /\ entityReadyAwaited(k)
    /\ IF entityField[cEnt[k]] = 0
       THEN /\ cPc' = [cPc EXCEPT ![k] = "threw"]
            /\ UNCHANGED <<engVars, addCalls>>
       ELSE /\ cPc' = [cPc EXCEPT ![k] = "awaitAdd"]
            /\ Commit(Entity_addComponent(entityField[cEnt[k]], Cur))
            /\ addCalls' = addCalls + 1
    /\ UNCHANGED <<modelVars, skyVars, scriptVars, soundVars, cameraVars, materialVars, pointerVars, demoVars>>
    /\ UNCHANGED <<domVars, moduleVars, appVars, assetAttrs, assetVars, cEnt>>

\* connectedCallback after await this.addComponent(): initComponent, _onReady
CompFinish(k) ==
    /\ cPc[k] = "awaitAdd"
    /\ cPc' = [cPc EXCEPT ![k] = "done"]
    /\ Commit(onReady("c", Cur))
    /\ UNCHANGED <<modelVars, skyVars, scriptVars, soundVars, cameraVars, materialVars, pointerVars, demoVars>>
    /\ UNCHANGED <<domVars, moduleVars, appVars, assetAttrs, assetVars, cEnt,
                   addCalls>>

(* ------------------------- pointer event routing ----------------------- *)
PointerTypes == {"pointermove", "pointerdown", "pointerup", "pointerenter", "pointerleave"}
\* the event types AppElement._pointerHandlers has a handler for
HandlerTypes == {"pointermove", "pointerdown", "pointerup"}

\* name attributes of the pc-entity elements; "" is an element without one
UniqueNames == [e \in Entities |-> CASE e = "e1" -> "a" [] e = "e2" -> "b" [] e = "e3" -> "c"]
DupNames == [e \in Entities |-> CASE e = "e1" -> "a" [] e = "e2" -> "b" [] e = "e3" -> "a"]
PartNames == [e \in Entities |-> CASE e = "e1" -> "a" [] e = "e2" -> "" [] e = "e3" -> "c"]
EntNames == {UniqueNames, DupNames, PartNames}

\* what the picker returns: nothing (node 0), the graph node of an entity, or a
\* mesh node of a model below that entity
NoPick == [node |-> 0, mesh |-> FALSE]
Picks == [node : EntIds, mesh : BOOLEAN] \cup {NoPick}
MeshName == "mesh"

\* the first graph node of a selection the picker can return: a node that is
\* rendered, so one of a live entity below the root of the application
Pickable(p) ==
    \/ p = NoPick
    \/ /\ p.node # 0
       /\ thisApp # 0
       /\ enState[p.node] = "live"
       /\ IsUnder(p.node, 0 - thisApp, enParent)

\* GraphNode.name of an entity: the name createEntity gave it
nodeName(i) ==
    LET n == entName[enOwner[i]] IN IF n = "" THEN "Untitled" ELSE n

\* this.querySelector('pc-entity[name="..."]'): the first pc-entity of the app,
\* in document order, whose name attribute is the name; "null" if none
querySelectorName(name) ==
    LET els == SelectSeq(querySelectorAll("app", attached),
                         LAMBDA e : entName[e] = name)
    IN IF els = <<>> THEN "null" ELSE Head(els)

\* EntityElement.hasListeners
hasListeners(e, type) == ptrListeners[e][type] > 0

\* this.app.root.findComponent('camera')
findCamera ==
    /\ thisApp # 0
    /\ \E i \in EntIds : /\ enState[i] = "live"
                         /\ enComp[i]
                         /\ IsUnder(i, 0 - thisApp, enParent)

\* the handler to attach or remove for a listener type
handlerType(type) ==
    IF type \in {"pointerenter", "pointerleave"} THEN "pointermove" ELSE type

\* AppElement._onPointerListenerAdded
onPointerListenerAdded(type, ps) ==
    IF ~ps.flags[type] /\ canvas # 0
    THEN [flags |-> [ps.flags EXCEPT ![type] = TRUE],
          cv |-> IF ptrPicker THEN ps.cv \cup {handlerType(type)} ELSE ps.cv]
    ELSE ps

\* AppElement._onPointerListenerRemoved, with the listeners L of the elements
onPointerListenerRemoved(type, L, ps) ==
    LET els == querySelectorAll("app", attached)
        some == \E i \in 1..Len(els) : L[els[i]][type] > 0
    IN IF ~some /\ canvas # 0
       THEN [flags |-> [ps.flags EXCEPT ![type] = FALSE],
             cv |-> IF ptrPicker THEN ps.cv \ {handlerType(type)} ELSE ps.cv]
       ELSE ps

\* a script calls entityElement.addEventListener(type, listener): the listener
\* is recorded and type:connect bubbles to the pc-app
EntityAddListener(e, type) ==
    /\ ptrOps < MaxPtrOps
    /\ ptrListeners[e][type] < MaxListeners
    /\ ptrOps' = ptrOps + 1
    /\ ptrListeners' = [ptrListeners EXCEPT ![e][type] = @ + 1]
    /\ LET ps == [flags |-> ptrFlags, cv |-> ptrCanvas]
           res == IF ptrListening /\ contains("app", e, attached)
                  THEN onPointerListenerAdded(type, ps) ELSE ps
       IN /\ ptrFlags' = res.flags
          /\ ptrCanvas' = res.cv
    /\ UNCHANGED <<entName, ptrPicker, ptrListening, ptrHovered, ptrLog>>
    /\ UNCHANGED <<domVars, moduleVars, appVars, assetAttrs, assetVars, engVars,
                   compVars, modelVars, skyVars, scriptVars, soundVars, cameraVars,
                   materialVars, demoVars>>

\* a script calls entityElement.removeEventListener(type, listener), with a
\* listener it added or with one it did not: type:disconnect bubbles to the pc-app
EntityRemoveListener(e, type) ==
    /\ ptrOps < MaxPtrOps
    /\ ptrOps' = ptrOps + 1
    /\ LET L == [ptrListeners EXCEPT ![e][type] = IF @ > 0 THEN @ - 1 ELSE 0]
           ps == [flags |-> ptrFlags, cv |-> ptrCanvas]
           res == IF ptrListening /\ contains("app", e, attached)
                  THEN onPointerListenerRemoved(type, L, ps) ELSE ps
       IN /\ ptrListeners' = L
          /\ ptrFlags' = res.flags
          /\ ptrCanvas' = res.cv
    /\ UNCHANGED <<entName, ptrPicker, ptrListening, ptrHovered, ptrLog>>
    /\ UNCHANGED <<domVars, moduleVars, appVars, assetAttrs, assetVars, engVars,
                   compVars, modelVars, skyVars, scriptVars, soundVars, cameraVars,
                   materialVars, demoVars>>

RECURSIVE hoverWalk(_)
\* the while loop of _onPointerMove from entity node i: the first node on the
\* way up whose name is the name of a pc-entity; the root matches none
hoverWalk(i) ==
    IF i <= 0 THEN "null"
    ELSE LET el == querySelectorName(nodeName(i))
         IN IF el # "null" THEN el ELSE hoverWalk(enParent[i])

\* newHoverEntity of _onPointerMove for the selection p
resolveHover(p) ==
    IF p.node = 0 THEN "null"
    ELSE IF p.mesh /\ querySelectorName(MeshName) # "null"
         THEN querySelectorName(MeshName)
    ELSE hoverWalk(p.node)

\* the processing guard of the three handlers: picker, app and camera
pointerProcessed == ptrPicker /\ thisApp # 0 /\ findCamera

\* AppElement._onPointerMove: the new _hoveredEntity and the events dispatched
onPointerMove(p) ==
    IF ~pointerProcessed THEN [hov |-> ptrHovered, log |-> <<>>]
    ELSE LET new == resolveHover(p)
             old == ptrHovered
             leave == IF old # new /\ old # "null" /\ hasListeners(old, "pointerleave")
                      THEN <<(<<"pointerleave", old>>)>> ELSE <<>>
             enter == IF old # new /\ new # "null" /\ hasListeners(new, "pointerenter")
                      THEN <<(<<"pointerenter", new>>)>> ELSE <<>>
             move == IF new # "null" /\ hasListeners(new, "pointermove")
                     THEN <<(<<"pointermove", new>>)>> ELSE <<>>
         IN [hov |-> new, log |-> leave \o enter \o move]

RECURSIVE downWalk(_)
\* the while loop of _onPointerDown from entity node i
downWalk(i) ==
    IF i <= 0 THEN "null"
    ELSE LET el == querySelectorName(nodeName(i))
         IN IF el # "null" /\ hasListeners(el, "pointerdown") THEN el
            ELSE downWalk(enParent[i])

\* the element _onPointerDown dispatches pointerdown to, "null" if none
downTarget(p) ==
    IF p.node = 0 THEN "null"
    ELSE IF /\ p.mesh
            /\ querySelectorName(MeshName) # "null"
            /\ hasListeners(querySelectorName(MeshName), "pointerdown")
         THEN querySelectorName(MeshName)
    ELSE downWalk(p.node)

\* AppElement._onPointerDown: the events dispatched
onPointerDown(p) ==
    IF ~pointerProcessed \/ downTarget(p) = "null" THEN <<>>
    ELSE <<(<<"pointerdown", downTarget(p)>>)>>

\* the element _onPointerUp dispatches pointerup to: that of selection[0].node
upTarget(p) ==
    LET el == IF p.node = 0 THEN "null"
              ELSE IF p.mesh THEN querySelectorName(MeshName)
              ELSE querySelectorName(nodeName(p.node))
    IN IF el # "null" /\ hasListeners(el, "pointerup") THEN el ELSE "null"

\* AppElement._onPointerUp: the events dispatched
onPointerUp(p) ==
    IF ~pointerProcessed \/ upTarget(p) = "null" THEN <<>>
    ELSE <<(<<"pointerup", upTarget(p)>>)>>

\* the canvas receives a pointermove while the handler is attached to it
PointerMove(p) ==
    /\ canvas # 0
    /\ "pointermove" \in ptrCanvas
    /\ Pickable(p)
    /\ ptrHovered' = onPointerMove(p).hov
    /\ ptrLog' = onPointerMove(p).log
    /\ UNCHANGED <<entName, ptrListeners, ptrFlags, ptrPicker, ptrListening, ptrCanvas,
                   ptrOps>>
    /\ UNCHANGED <<domVars, moduleVars, appVars, assetAttrs, assetVars, engVars,
                   compVars, modelVars, skyVars, scriptVars, soundVars, cameraVars,
                   materialVars, demoVars>>

\* the canvas receives a pointerdown while the handler is attached to it
PointerDown(p) ==
    /\ canvas # 0
    /\ "pointerdown" \in ptrCanvas
    /\ Pickable(p)
    /\ ptrLog' = onPointerDown(p)
    /\ UNCHANGED <<entName, ptrListeners, ptrFlags, ptrPicker, ptrListening, ptrCanvas,
                   ptrHovered, ptrOps>>
    /\ UNCHANGED <<domVars, moduleVars, appVars, assetAttrs, assetVars, engVars,
                   compVars, modelVars, skyVars, scriptVars, soundVars, cameraVars,
                   materialVars, demoVars>>

\* the canvas receives a pointerup while the handler is attached to it
PointerUp(p) ==
    /\ canvas # 0
    /\ "pointerup" \in ptrCanvas
    /\ Pickable(p)
    /\ ptrLog' = onPointerUp(p)
    /\ UNCHANGED <<entName, ptrListeners, ptrFlags, ptrPicker, ptrListening, ptrCanvas,
                   ptrHovered, ptrOps>>
    /\ UNCHANGED <<domVars, moduleVars, appVars, assetAttrs, assetVars, engVars,
                   compVars, modelVars, skyVars, scriptVars, soundVars, cameraVars,
                   materialVars, demoVars>>

(* ------------------------ FrameScene (src/js/app.js) ------------------- *)
\* no camera animation track, no gsplat component, a null distance
NoTrack == [duration |-> 0, loopMode |-> "absent"]
NoGsplat == 0 - 1
Null == 0 - 1

\* loop modes and durations (seconds) of the animation track of the settings
LoopModes == {"none", "repeat", "pingpong"}
Durations == {2, 3}
Tracks == [duration : Durations, loopMode : LoopModes] \cup {NoTrack}
\* lengths of the half extents of the gsplat's bounding box, in hundredths
SceneSizes == {0, 1000, 10000, NoGsplat}
\* Math.sign(event.deltaY)
Signs == {0 - 1, 0, 1}

\* FrameScene.minDistance, maxDistance and zoomSpeed, in hundredths
minDistance == 50
maxDistance == 5000
zoomSpeed == 15

Max(a, b) == IF a >= b THEN a ELSE b
Min2(a, b) == IF a <= b THEN a ELSE b
\* Math.floor(Math.sqrt(n))
ISqrt(n) == CHOOSE k \in 0..n : k * k <= n /\ n < (k + 1) * (k + 1)

\* the script instance before initialize, for the given settings
InitFrameScene(tracks, noanims, scenes, sorters) ==
    /\ fsTrack \in tracks
    /\ fsNoanim \in noanims
    /\ fsScene \in scenes
    /\ fsSorter \in sorters
    /\ fsPc = "none"
    /\ fsAnimating = FALSE
    /\ fsTimer = 0
    /\ fsTime = 0
    /\ fsEval = <<>>
    /\ fsHandler = FALSE
    /\ fsSorterOn = FALSE
    /\ fsFrameOn = 0
    /\ fsFirst = 0
    /\ fsUpdated = 0
    /\ fsTarget = Null
    /\ fsCurrent = Null
    /\ fsDistInits = 0
    /\ fsWheels = 0

\* FrameScene.initialize: the distances are null, handleWheel listens on window
FsInitialize ==
    /\ fsPc = "none"
    /\ fsPc' = "initialized"
    /\ fsTarget' = Null
    /\ fsCurrent' = Null
    /\ UNCHANGED <<fsTrack, fsNoanim, fsScene, fsSorter, fsAnimating, fsTimer, fsTime,
                   fsEval, fsHandler, fsSorterOn, fsFrameOn, fsFirst, fsUpdated,
                   fsDistInits, fsWheels>>
    /\ UNCHANGED notFrameVars

\* FrameScene.initCamera, called by postInitialize or by the asset's 'load'
FsInitCamera ==
    /\ fsPc = "initialized"
    /\ fsPc' = "camera"
    /\ fsAnimating' = FALSE
    /\ fsTimer' = 0
    /\ fsHandler' = TRUE
    /\ fsSorterOn' = (fsScene # NoGsplat /\ fsSorter)
    /\ UNCHANGED <<fsTrack, fsNoanim, fsScene, fsSorter, fsTime, fsEval, fsFrameOn,
                   fsFirst, fsUpdated, fsTarget, fsCurrent, fsDistInits,
                   fsWheels>>
    /\ UNCHANGED notFrameVars

\* the 'updated' listener that stays registered
onSorterUpdated_NoOff(on) == [on |-> on, ran |-> on]

\* the sorter's 'updated' listener of initCamera: handle.off(), then the body
onSorterUpdated(on) == [on |-> FALSE, ran |-> on]

\* the gsplat sorter emits 'updated'
SorterUpdated ==
    /\ fsPc = "camera"
    /\ fsScene # NoGsplat /\ fsSorter
    /\ fsUpdated < MaxFrameEvents
    /\ UNCHANGED fsWheels
    /\ LET res == onSorterUpdated(fsSorterOn)
       IN /\ fsSorterOn' = res.on
          /\ fsUpdated' = IF res.ran THEN fsUpdated + 1 ELSE fsUpdated
          /\ fsFrameOn' = IF res.ran THEN fsFrameOn + 1 ELSE fsFrameOn
    /\ UNCHANGED <<fsTrack, fsNoanim, fsScene, fsSorter, fsPc, fsAnimating, fsTimer,
                   fsTime, fsEval, fsHandler, fsFirst, fsTarget, fsCurrent,
                   fsDistInits>>
    /\ UNCHANGED notFrameVars

\* the application emits 'frameend': every registered listener of initCamera
\* removes itself, hides the loading indicator and the poster, starts the
\* animation if there is a track, and calls window.firstFrame
FrameEnd ==
    /\ fsPc = "camera"
    /\ fsFirst < MaxFrameEvents
    /\ UNCHANGED fsWheels
    /\ fsFrameOn' = 0
    /\ fsFirst' = fsFirst + fsFrameOn
    /\ fsAnimating' = IF fsFrameOn > 0 /\ fsTrack # NoTrack THEN TRUE ELSE fsAnimating
    /\ UNCHANGED <<fsTrack, fsNoanim, fsScene, fsSorter, fsPc, fsTimer, fsTime, fsEval,
                   fsHandler, fsSorterOn, fsUpdated, fsTarget, fsCurrent, fsDistInits>>
    /\ UNCHANGED notFrameVars

\* the time the update handler passes to spline.evaluate for cameraAnim.time
\* after the loop mode was applied: the way back of a pingpong track
evaluateTime(time, duration) ==
    IF time > duration THEN duration - time ELSE time

\* cameraAnim.time after the loop mode of the track was applied
loopTime(time, track) ==
    IF time >= track.duration
    THEN CASE track.loopMode = "none" -> track.duration
           [] track.loopMode = "repeat" -> time % track.duration
           [] track.loopMode = "pingpong" -> time % (track.duration * 2)
           [] OTHER -> time
    ELSE time

\* the 'update' listener of initCamera for deltaTime dt: the new animationTimer
\* and cameraAnim.time and the times given to spline.evaluate; the eased step
\* deltaTime * sqrt(animationTimer / 5) is rounded down to whole seconds
onUpdate(dt, animating, timer, time) ==
    IF fsTrack # NoTrack /\ animating /\ ~fsNoanim
    THEN LET timer1 == timer + dt
             step == IF timer1 < 5 THEN ISqrt((dt * dt * timer1) \div 5) ELSE dt
             time1 == loopTime(time + step, fsTrack)
         IN [timer |-> timer1, time |-> time1,
             eval |-> <<evaluateTime(time1, fsTrack.duration)>>]
    ELSE [timer |-> timer, time |-> time, eval |-> <<>>]

\* the application emits 'update' with deltaTime dt
Update(dt) ==
    /\ fsPc = "camera"
    /\ fsTimer + dt <= MaxTimer
    /\ UNCHANGED fsWheels
    /\ LET res == onUpdate(dt, fsAnimating, fsTimer, fsTime)
       IN /\ fsTimer' = res.timer
          /\ fsTime' = res.time
          /\ fsEval' = res.eval
    /\ UNCHANGED <<fsTrack, fsNoanim, fsScene, fsSorter, fsPc, fsAnimating, fsHandler,
                   fsSorterOn, fsFrameOn, fsFirst, fsUpdated, fsTarget, fsCurrent,
                   fsDistInits>>
    /\ UNCHANGED notFrameVars

\* the interaction handler of initCamera, if it is still a listener of the
\* canvas: cancelAnimation, then it removes itself
interactionHandler(on, animating) ==
    IF on THEN [attached |-> FALSE, animating |-> FALSE]
    ELSE [attached |-> on, animating |-> animating]

\* the zoom without the upper limit
zoom_NoMax(target, sign) ==
    Max(minDistance, (target * (100 + sign * zoomSpeed)) \div 100)

\* Math.max(minDistance, Math.min(maxDistance, targetDistance * (1 - delta)))
\* with delta = -Math.sign(deltaY) * zoomSpeed, rounded down to hundredths
zoom(target, sign) ==
    Max(minDistance, Min2(maxDistance, (target * (100 + sign * zoomSpeed)) \div 100))

\* FrameScene.handleWheel: this.cancelAnimation is not a property of the script
\* (cancelAnimation is a local of initCamera), so nothing is cancelled here
handleWheel(sign, target, current, inits) ==
    LET first == target = Null
        dist == IF fsScene # NoGsplat THEN fsScene * 2 ELSE 500
        t0 == IF first THEN dist ELSE target
    IN [target |-> zoom(t0, sign),
        current |-> IF first THEN dist ELSE current,
        inits |-> IF first THEN inits + 1 ELSE inits]

\* a wheel event on the canvas or elsewhere in the window: the canvas listener
\* runs before the event bubbles to the listener of window
Wheel(onCanvas, sign) ==
    /\ fsPc # "none"
    /\ fsWheels < MaxWheels
    /\ fsWheels' = fsWheels + 1
    /\ LET h == IF onCanvas THEN interactionHandler(fsHandler, fsAnimating)
                ELSE [attached |-> fsHandler, animating |-> fsAnimating]
           w == handleWheel(sign, fsTarget, fsCurrent, fsDistInits)
       IN /\ fsHandler' = h.attached
          /\ fsAnimating' = h.animating
          /\ fsTarget' = w.target
          /\ fsCurrent' = w.current
          /\ fsDistInits' = w.inits
    /\ UNCHANGED <<fsTrack, fsNoanim, fsScene, fsSorter, fsPc, fsTimer, fsTime, fsEval,
                   fsSorterOn, fsFrameOn, fsFirst, fsUpdated>>
    /\ UNCHANGED notFrameVars

\* a pointerdown or contextmenu event on the canvas
CanvasPointer ==
    /\ UNCHANGED fsWheels
    /\ LET h == interactionHandler(fsHandler, fsAnimating)
       IN /\ fsHandler' = h.attached
          /\ fsAnimating' = h.animating
    /\ UNCHANGED <<fsTrack, fsNoanim, fsScene, fsSorter, fsPc, fsTimer, fsTime, fsEval,
                   fsSorterOn, fsFrameOn, fsFirst, fsUpdated, fsTarget, fsCurrent,
                   fsDistInits>>
    /\ UNCHANGED notFrameVars

\* a keydown of f or r without modifier: cancelAnimation, then the camera is
\* framed or reset
KeyDown ==
    /\ fsPc = "camera"
    /\ UNCHANGED fsWheels
    /\ fsAnimating' = FALSE
    /\ UNCHANGED <<fsTrack, fsNoanim, fsScene, fsSorter, fsPc, fsTimer, fsTime, fsEval,
                   fsHandler, fsSorterOn, fsFrameOn, fsFirst, fsUpdated, fsTarget,
                   fsCurrent, fsDistInits>>
    /\ UNCHANGED notFrameVars

(* ------------------ XR sessions of the demo (src/js/app.js) ------------- *)
XrTypes == {"immersive-ar", "immersive-vr"}
\* values of the type attribute and property of the pc-sky
SkyTypes == {"infinite", "box", "none"}
\* clear colours of the camera; "transparent" is Color(0, 0, 0, 0)
Colors == {"background", "transparent"}

\* SkyElement.type after the element was created with the type attribute attr
\* ("absent" if it has none): attributeChangedCallback assigns the property
skyTypeOf(attr) == IF attr = "absent" THEN "infinite" ELSE attr

\* the page before the script has registered the xr listeners
InitXr(skies, attrs, colors) ==
    /\ xrSky \in skies
    /\ xrSkyAttr \in IF xrSky THEN attrs ELSE {"absent"}
    /\ xrSkyType = skyTypeOf(xrSkyAttr)
    /\ xrClear \in colors
    /\ xrSavedClear = "black"
    /\ xrSavedSky = "null"
    /\ xrAutoRender = FALSE
    /\ xrType = "none"
    /\ xrBefore = [clear |-> xrClear, sky |-> xrSkyType]
    /\ xrSessions = 0

\* a script of the page assigns sky.type outside a session
SkySetType(v) ==
    /\ xrSky
    /\ xrType = "none"
    /\ xrSessions < MaxSessions
    /\ xrSkyType' = v
    /\ UNCHANGED <<xrSky, xrSkyAttr, xrClear, xrSavedClear, xrSavedSky, xrAutoRender,
                   xrType, xrBefore, xrSessions>>
    /\ UNCHANGED notXrVars

\* the 'start' listener of app.xr
onXrStart(type, x) ==
    IF type = "immersive-ar"
    THEN LET hide == x.hasSky /\ x.sky # "none"
         IN [x EXCEPT !.savedClear = x.clear,
                      !.clear = "transparent",
                      !.savedSky = IF hide THEN x.sky ELSE x.savedSky,
                      !.sky = IF hide THEN "none" ELSE x.sky,
                      !.auto = TRUE]
    ELSE x

\* sky.removeAttribute('type'): attributeChangedCallback runs with newValue
\* null if the element has the attribute, and assigns it to the property
removeTypeAttribute(x) ==
    IF x.attr # "absent" THEN [x EXCEPT !.attr = "absent", !.sky = "null"] ELSE x

\* the 'end' listener of app.xr
onXrEnd(type, x) ==
    IF type = "immersive-ar"
    THEN LET x1 == [x EXCEPT !.clear = x.savedClear]
             x2 == IF ~x.hasSky THEN x1
                   ELSE IF x.savedSky # "null"
                        THEN [x1 EXCEPT !.sky = x.savedSky, !.savedSky = "null"]
                   ELSE removeTypeAttribute(x1)
         IN [x2 EXCEPT !.auto = FALSE]
    ELSE x

XCur == [clear |-> xrClear, savedClear |-> xrSavedClear, sky |-> xrSkyType,
         savedSky |-> xrSavedSky, attr |-> xrSkyAttr, hasSky |-> xrSky,
         auto |-> xrAutoRender]

XCommit(x) ==
    /\ xrClear' = x.clear
    /\ xrSavedClear' = x.savedClear
    /\ xrSkyType' = x.sky
    /\ xrSavedSky' = x.savedSky
    /\ xrSkyAttr' = x.attr
    /\ xrAutoRender' = x.auto

\* a session of the type starts: app.xr fires 'start'
XrStart(type) ==
    /\ xrType = "none"
    /\ xrSessions < MaxSessions
    /\ xrSessions' = xrSessions + 1
    /\ xrType' = type
    /\ xrBefore' = [clear |-> xrClear, sky |-> xrSkyType]
    /\ XCommit(onXrStart(type, XCur))
    /\ UNCHANGED xrSky
    /\ UNCHANGED notXrVars

\* the session ends: app.xr fires 'end'
XrEnd ==
    /\ xrType # "none"
    /\ xrType' = "none"
    /\ XCommit(onXrEnd(xrType, XCur))
    /\ UNCHANGED <<xrSky, xrBefore, xrSessions>>
    /\ UNCHANGED notXrVars

(* --------------------- MeshoptDecoder and its worker pool --------------- *)
Workers == 1..MaxWorkers
RequestIds == 0..(MaxRequests - 1)
Views == 1..MaxViews
\* the count of a request: the elements of the buffer to decode
Counts == {1, 2}

\* the decoder before useWorkers and before any buffer view is processed
InitDecoder ==
    /\ wkCount = 0
    /\ wkPending = [w \in Workers |-> 0]
    /\ wkRequests = [w \in Workers |-> {}]
    /\ wkInbox = [w \in Workers |-> <<>>]
    /\ wkOutbox = [w \in Workers |-> <<>>]
    /\ requestId = 0
    /\ rqCount = [i \in RequestIds |-> 0]
    /\ rqBad = [i \in RequestIds |-> FALSE]
    /\ rqPosted = [i \in RequestIds |-> 0]
    /\ rqAnswered = [i \in RequestIds |-> FALSE]
    /\ rqSettled = [i \in RequestIds |-> <<>>]
    /\ decReady = FALSE
    /\ bvPc = [v \in Views |-> "none"]
    /\ bvExt = [v \in Views |-> FALSE]
    /\ bvBad = [v \in Views |-> FALSE]
    /\ bvBuffer = [v \in Views |-> FALSE]
    /\ bvConts = [v \in Views |-> <<>>]

\* MeshoptDecoder.useWorkers(count): initWorkers creates the workers
UseWorkers(count) ==
    /\ wkCount = 0
    /\ wkCount' = count
    /\ UNCHANGED <<wkPending, wkRequests, wkInbox, wkOutbox, requestId, rqCount, rqBad,
                   rqPosted, rqAnswered, rqSettled, decReady, bvPc, bvExt, bvBad,
                   bvBuffer, bvConts>>
    /\ UNCHANGED notDecVars

\* the choice of the first worker whatever it has pending
pickWorker_First(pending, n) == 1

RECURSIVE pickFrom(_, _, _, _)
\* the loop of decodeWorker from workers[i] on, with the worker chosen so far
pickFrom(i, best, pending, n) ==
    IF i > n THEN best
    ELSE pickFrom(i + 1, IF pending[i] < pending[best] THEN i ELSE best, pending, n)

\* the worker decodeWorker chooses among workers[0..n-1]
pickWorker(pending, n) == pickFrom(2, 1, pending, n)

\* decodeGltfBufferAsync with workers: decodeWorker posts the request to the
\* chosen worker
DecodeWorker(count, bad) ==
    /\ wkCount > 0
    /\ requestId < MaxRequests
    /\ LET w == pickWorker(wkPending, wkCount)
           id == requestId
       IN /\ requestId' = requestId + 1
          /\ wkPending' = [wkPending EXCEPT ![w] = @ + count]
          /\ wkRequests' = [wkRequests EXCEPT ![w] = @ \cup {id}]
          /\ wkInbox' = [wkInbox EXCEPT ![w] = Append(@, id)]
          /\ rqCount' = [rqCount EXCEPT ![id] = count]
          /\ rqBad' = [rqBad EXCEPT ![id] = bad]
          /\ rqPosted' = [rqPosted EXCEPT ![id] = w]
    /\ UNCHANGED <<wkCount, wkOutbox, rqAnswered, rqSettled, decReady, bvPc, bvExt,
                   bvBad, bvBuffer, bvConts>>
    /\ UNCHANGED notDecVars

\* decode: the wasm decoder returns non-zero for malformed data, and decode
\* throws after it copied the target
decode(bad) == IF bad THEN "throws" ELSE "returns"

\* workerProcess in worker w for its next message: decode, and post the
\* result with action resolve, or the error with action reject
WorkerProcess(w) ==
    /\ wkInbox[w] # <<>>
    /\ LET id == Head(wkInbox[w])
           action == IF decode(rqBad[id]) = "throws" THEN "reject" ELSE "resolve"
       IN wkOutbox' = [wkOutbox EXCEPT ![w] =
                          Append(@, [id |-> id, count |-> rqCount[id], action |-> action])]
    /\ wkInbox' = [wkInbox EXCEPT ![w] = Tail(@)]
    /\ UNCHANGED <<wkCount, wkPending, wkRequests, requestId, rqCount, rqBad, rqPosted,
                   rqAnswered, rqSettled, decReady, bvPc, bvExt, bvBad, bvBuffer,
                   bvConts>>
    /\ UNCHANGED notDecVars

\* worker.object.onmessage of worker w for the next message of the worker
WorkerOnMessage(w) ==
    /\ wkOutbox[w] # <<>>
    /\ LET data == Head(wkOutbox[w])
       IN /\ wkPending' = [wkPending EXCEPT ![w] = @ - data.count]
          /\ rqSettled' = [rqSettled EXCEPT ![data.id] =
                              IF data.id \in wkRequests[w] THEN Append(@, data.action)
                              ELSE @]
          /\ wkRequests' = [wkRequests EXCEPT ![w] = @ \ {data.id}]
          /\ rqAnswered' = [rqAnswered EXCEPT ![data.id] = TRUE]
    /\ wkOutbox' = [wkOutbox EXCEPT ![w] = Tail(@)]
    /\ UNCHANGED <<wkCount, wkInbox, requestId, rqCount, rqBad, rqPosted, decReady,
                   bvPc, bvExt, bvBad, bvBuffer, bvConts>>
    /\ UNCHANGED notDecVars

\* the promise MeshoptDecoder.ready resolves: the wasm module is instantiated
DecoderReady ==
    /\ ~decReady
    /\ decReady' = TRUE
    /\ UNCHANGED <<wkCount, wkPending, wkRequests, wkInbox, wkOutbox, requestId,
                   rqCount, rqBad, rqPosted, rqAnswered, rqSettled, bvPc, bvExt, bvBad,
                   bvBuffer, bvConts>>
    /\ UNCHANGED notDecVars

\* the glb parser calls processBufferView for buffer view v, which has the
\* EXT_meshopt_compression extension or not, with well-formed data or not
ProcessBufferView(v, ext, bad) ==
    /\ bvPc[v] = "none"
    /\ \A u \in Views : u < v => bvPc[u] # "none"
    /\ bvExt' = [bvExt EXCEPT ![v] = ext]
    /\ bvBad' = [bvBad EXCEPT ![v] = bad /\ ext]
    /\ bvPc' = [bvPc EXCEPT ![v] = IF ext THEN "waiting" ELSE "done"]
    /\ bvConts' = [bvConts EXCEPT ![v] = IF ext THEN @ ELSE Append(@, <<"null", "null">>)]
    /\ UNCHANGED <<wkCount, wkPending, wkRequests, wkInbox, wkOutbox, requestId,
                   rqCount, rqBad, rqPosted, rqAnswered, rqSettled, decReady, bvBuffer>>
    /\ UNCHANGED notDecVars

\* the promise buffers[extensionDef.buffer] of buffer view v resolves
BufferResolved(v) ==
    /\ bvPc[v] = "waiting"
    /\ ~bvBuffer[v]
    /\ bvBuffer' = [bvBuffer EXCEPT ![v] = TRUE]
    /\ UNCHANGED <<wkCount, wkPending, wkRequests, wkInbox, wkOutbox, requestId,
                   rqCount, rqBad, rqPosted, rqAnswered, rqSettled, decReady, bvPc,
                   bvExt, bvBad, bvConts>>
    /\ UNCHANGED notDecVars

\* the then-callback of processBufferView: decodeGltfBuffer, continuation
bufferViewThen(bad, conts) ==
    IF decode(bad) = "throws" THEN [pc |-> "threw", conts |-> conts]
    ELSE [pc |-> "done", conts |-> Append(conts, <<"null", "result">>)]

\* Promise.all of the decoder's ready and the buffer of view v has resolved
BufferViewThen(v) ==
    /\ bvPc[v] = "waiting"
    /\ decReady /\ bvBuffer[v]
    /\ LET res == bufferViewThen(bvBad[v], bvConts[v])
       IN /\ bvPc' = [bvPc EXCEPT ![v] = res.pc]
          /\ bvConts' = [bvConts EXCEPT ![v] = res.conts]
    /\ UNCHANGED <<wkCount, wkPending, wkRequests, wkInbox, wkOutbox, requestId,
                   rqCount, rqBad, rqPosted, rqAnswered, rqSettled, decReady, bvExt,
                   bvBad, bvBuffer>>
    /\ UNCHANGED notDecVars

(* --------------------------- specification ---------------------------- *)
\* the elements of the page as parsed
InitElements(kinds, types, srcs, lazies, ids, names, strs, maps, enames) ==
    /\ inDoc = TRUE
    /\ attached = [x \in Nodes |-> TRUE]
    /\ domOps = 0
    /\ moduleKind \in [Modules -> kinds]
    /\ moduleLoaded = [m \in Modules |-> moduleKind[m] = "Basis"]
    /\ appPc = [r \in AppRuns |-> IF r = 1 THEN "modules" ELSE "none"]
    /\ thisApp = 0
    /\ appState = [r \in AppRuns |-> "none"]
    /\ started = [r \in AppRuns |-> FALSE]
    /\ preloaded = [r \in AppRuns |-> FALSE]
    /\ materialField = FALSE
    /\ canvas = 0
    /\ hierarchyReady = FALSE
    /\ assetType \in types
    /\ assetSrc \in srcs
    /\ assetLazy \in lazies
    /\ assetField = 0
    /\ assetKind = [r \in AppRuns |-> ""]
    /\ assetLoad = [r \in AppRuns |-> "no"]
    /\ registry = [r \in AppRuns |-> FALSE]
    /\ warnings = 0
    /\ entityField = [e \in Entities |-> 0]
    /\ enState = [i \in EntIds |-> "none"]
    /\ enParent = [i \in EntIds |-> 0]
    /\ enOwner = [i \in EntIds |-> "none"]
    /\ enComp = [i \in EntIds |-> FALSE]
    /\ destroyCalls = [i \in EntIds |-> 0]
    /\ ready = [x \in AsyncEls |-> FALSE]
    /\ onReadyCalls = [x \in AsyncEls |-> 0]
    /\ readyEvents = [x \in AsyncEls |-> 0]
    /\ cPc = [k \in CompRuns |-> IF k = 1 THEN "awaitApp" ELSE "none"]
    /\ cEnt = [k \in CompRuns |-> "none"]
    /\ cComponent = 0
    /\ addCalls = 0
    /\ mAtt = FALSE
    /\ mAsset \in ids
    /\ mEntity = 0
    /\ mInst = [j \in InstIds |-> "none"]
    /\ mInstParent = [j \in InstIds |-> 0]
    /\ mPc = [k \in LoadRuns |-> "none"]
    /\ mCap = [k \in LoadRuns |-> 0]
    /\ mLinks = 0
    /\ mThrown = 0
    /\ mOps = 0
    /\ skyAtt = FALSE
    /\ skyAsset \in ids
    /\ skyScene = 0
    /\ skyPc = [k \in LoadRuns |-> "none"]
    /\ skyCap = [k \in LoadRuns |-> 0]
    /\ sceneSkybox = [r \in AppRuns |-> FALSE]
    /\ scName \in names
    /\ scAttrs \in strs
    /\ scChild = FALSE
    /\ scComponent = FALSE
    /\ scInst = NoScript
    /\ scCalls = 0
    /\ scCreated = <<>>
    /\ scErrors = 0
    /\ scOps = 0
    /\ scObserving = TRUE
    /\ scEnabled = TRUE
    /\ scInstEnabled = TRUE
    /\ scFields = EmptyObject
    /\ scThrown = 0
    /\ sndComponent = FALSE
    /\ sndSlots = FALSE
    /\ slParent = "none"
    /\ slPc = [k \in SlotRuns |-> "none"]
    /\ slAwaits = [k \in SlotRuns |-> FALSE]
    /\ slSoundSlot = FALSE
    /\ slPlaying = FALSE
    /\ slWarnings = 0
    /\ slThrown = 0
    /\ slOps = 0
    /\ camAttr = [a \in BoolAttrs |-> "unset"]
    /\ camField = CameraDefaults
    /\ camEnabled = TRUE
    /\ camPc = "none"
    /\ camComponent = FALSE
    /\ camProp = CameraDefaults
    /\ camCompEnabled = TRUE
    /\ camOps = 0
    /\ matAttached = TRUE
    /\ matMapAttr \in maps
    /\ matMapped = FALSE
    /\ matListeners = [a \in AppRuns |-> 0]
    /\ matThrown = 0
    /\ entName \in enames
    /\ ptrListeners = [e \in Entities |-> [ty \in PointerTypes |-> 0]]
    /\ ptrFlags = [ty \in PointerTypes |-> FALSE]
    /\ ptrPicker = FALSE
    /\ ptrListening = FALSE
    /\ ptrCanvas = {}
    /\ ptrHovered = "null"
    /\ ptrLog = <<>>
    /\ ptrOps = 0

\* the script of the demo page as the settings without a track give it
InitDemo ==
    /\ InitFrameScene({NoTrack}, {FALSE}, {NoGsplat}, {FALSE})
    /\ InitXr({FALSE}, {"absent"}, {"background"})
    /\ InitDecoder

InitWith(kinds, types, srcs, lazies, ids, names, strs, maps, enames) ==
    /\ InitElements(kinds, types, srcs, lazies, ids, names, strs, maps, enames)
    /\ InitDemo

\* the page as parsed: every element in place, the app's connectedCallback at
\* its first await, the component's connectedCallback at its first await; the
\* pc-model and the pc-sky are not in the page
Init == InitWith({"other"}, {""}, {<<"scene", "glb">>}, {FALSE}, {""}, {"s1"}, {<<>>}, {""}, {UniqueNames})

Next ==
    \/ \E m \in Modules : WasmCallback(m)
    \/ \E r \in AppRuns : AppAfterModules(r)
    \/ \E a \in AppRuns : AssetLoadEvent(a)
    \/ \E r \in AppRuns : AppPreloadCallback(r)
    \/ DetachApp
    \/ AttachApp
    \/ \E x \in Nodes : Detach(x)
    \/ \E x \in Nodes : Attach(x)
    \/ \E k \in CompRuns : CompAfterApp(k)
    \/ \E k \in CompRuns : CompAfterEntity(k)
    \/ \E k \in CompRuns : CompFinish(k)

Spec == Init /\ [][Next]_vars

\* the same page with every combination of the pc-asset's type and src
AssetTypes == {"", "texture"}
AssetSrcs == {<<"scene", "glb">>, <<"data", "xyz">>, <<"noext">>, <<"a", "b", "png">>}
InitAsset == InitWith({"other"}, AssetTypes, AssetSrcs, {FALSE, TRUE}, {""}, {"s1"}, {<<>>}, {""}, {UniqueNames})
SpecAsset == InitAsset /\ [][Next]_vars

\* the page with pc-modules that are the Basis module or a WebAssembly module
ModuleKinds == {"Basis", "other"}
InitModule == InitWith(ModuleKinds, {""}, {<<"scene", "glb">>}, {FALSE}, {""},
                       {"s1"}, {<<>>}, {""}, {UniqueNames})
SpecModule == InitModule /\ [][Next]_vars

\* a page whose script creates a pc-model below e1 and a pc-sky below the app,
\* sets their asset and inserts, removes and re-inserts them; the app and the
\* entities stay in the document
AssetIds == {"", "a1"}
InitModel == InitWith({"other"}, {""}, {<<"scene", "glb">>}, {FALSE, TRUE}, AssetIds,
                      {"s1"}, {<<>>}, {""}, {UniqueNames})

NextModel ==
    \/ \E m \in Modules : WasmCallback(m)
    \/ \E r \in AppRuns : AppAfterModules(r)
    \/ \E a \in AppRuns : AssetLoadEvent(a)
    \/ \E r \in AppRuns : AppPreloadCallback(r)
    \/ ModelAttach
    \/ ModelDetach
    \/ \E v \in AssetIds : ModelSetAsset(v)
    \/ \E k \in LoadRuns : ModelAfterApp(k)
    \/ ModelLink
    \/ SkyAttach
    \/ SkyDetach
    \/ \E v \in AssetIds : SkySetAsset(v)
    \/ \E k \in LoadRuns : SkyAfterApp(k)

SpecModel == InitModel /\ [][NextModel]_vars

\* engine Asset objects constructed so far
AssetsMade == Cardinality({r \in AppRuns : assetKind[r] # ""})

TypeOK ==
    /\ thisApp \in 0..MaxAppRuns
    /\ assetField \in 0..MaxAppRuns
    /\ \A e \in Entities : entityField[e] \in 0..MaxEnt
    /\ cComponent \in 0..MaxEnt

(* ------------------------------ properties ---------------------------- *)
Settled(pc) == pc \in {"none", "done", "threw"}

\* the pc-entity elements that leave the document in the step
Leaving(e) == isConnected(e, attached, inDoc) /\ ~isConnected(e, attached', inDoc')

\* C1: entity.addComponent is called for the component element only once the
\* ready promise of the pc-app and the ready promise of the nearest ancestor
\* pc-entity have resolved, and the element's own ready promise resolves only in
\* the step that follows addComponent and runs initComponent.
C1_AddComponentAfterReady ==
    /\ [][addCalls' # addCalls =>
            /\ ready["app"]
            /\ \E k \in CompRuns :
                 /\ cPc[k] = "awaitEntity" /\ cPc'[k] = "awaitAdd"
                 /\ cEnt[k] = closestEntity("c", [attached EXCEPT !["c"] = TRUE])
                 /\ ready[cEnt[k]]]_vars
    /\ [][(~ready["c"] /\ ready'["c"]) =>
            \E k \in CompRuns : cPc[k] = "awaitAdd" /\ cPc'[k] = "done"]_vars

C1_Witness == addCalls > 0 /\ ready["c"] /\ cComponent # 0

\* C2: a component element that is out of the document and has no pending
\* continuation of connectedCallback has no engine component attached on its
\* behalf, and its _component is null.
C2_NoComponentAfterDisconnect ==
    (~isConnected("c", attached, inDoc) /\ \A k \in CompRuns : Settled(cPc[k]))
        => (cComponent = 0 /\ \A i \in EntIds : ~enComp[i])

\* C3: once the pc-app is out of the document and no continuation of its
\* connectedCallback is pending, this.app is null, every Application it built
\* is destroyed and no continuation dereferenced a null app.
C3_AppGoneAfterDisconnect ==
    (~inDoc /\ \A r \in AppRuns : Settled(appPc[r]))
        => /\ thisApp = 0
           /\ \A r \in AppRuns : appState[r] # "live"
           /\ \A r \in AppRuns : appPc[r] # "threw"

\* C4: the app's ready promise resolves only after, in this order, the
\* Application exists, createEntity and then buildHierarchy have run for every
\* pc-entity descendant (each is ready, hierarchyReady is set), the preload has
\* completed and app.start() has been called.
C4_AppReadyOrder ==
    /\ [](ready["app"] =>
            /\ \E r \in AppRuns : appState[r] # "none"
            /\ hierarchyReady
            /\ \E r \in AppRuns : preloaded[r]
            /\ \E r \in AppRuns : started[r])
    /\ [][(~hierarchyReady /\ hierarchyReady') =>
            /\ thisApp' # 0 /\ appState'[thisApp'] = "live"
            /\ ~ready'["app"]
            /\ \A r \in AppRuns : ~preloaded'[r] /\ ~started'[r]
            /\ \A k \in 1..Len(querySelectorAll("app", attached)) :
                 LET e == querySelectorAll("app", attached)[k]
                 IN entityField'[e] # 0 /\ ready'[e]]_vars
    /\ [][(started' # started) =>
            /\ hierarchyReady
            /\ \E r \in AppRuns : preloaded'[r]
            /\ \A r \in AppRuns : (started'[r] /\ ~started[r]) =>
                                       (r = thisApp /\ appState[r] = "live")]_vars
    /\ [][(~ready["app"] /\ ready'["app"]) =>
            \E r \in AppRuns : ~started[r] /\ started'[r]]_vars

C4_Witness == ready["app"] /\ \A e \in Entities : ready[e]

\* C5: when the app builds the hierarchy, the engine entity of every pc-entity
\* element becomes a child of the engine entity of its nearest ancestor
\* pc-entity element, or of app.root when it has none.
C5_HierarchyMirrorsDocument ==
    [][\A r \in AppRuns : (appPc[r] = "modules" /\ appPc'[r] = "preload") =>
          \A k \in 1..Len(querySelectorAll("app", attached)) :
            LET e == querySelectorAll("app", attached)[k]
                ce == closestEntity(e, attached)
            IN /\ entityField'[e] # 0
               /\ enState'[entityField'[e]] = "live"
               /\ enParent'[entityField'[e]] =
                    IF ce = "none" THEN 0 - thisApp' ELSE entityField'[ce]]_vars

C5_Witness ==
    /\ hierarchyReady /\ domOps = 0
    /\ entityField["e1"] # 0 /\ entityField["e2"] # 0
    /\ enParent[entityField["e2"]] = entityField["e1"]
    /\ enParent[entityField["e1"]] < 0
    /\ entityField["e3"] # 0
    /\ enParent[entityField["e3"]] = enParent[entityField["e1"]]

\* C6: when a pc-entity element with a non-null entity is disconnected, that
\* engine entity is destroyed by exactly one destroy() call, the element's
\* entity and that of every descendant pc-entity become null (so their own
\* callbacks call nothing); a disconnection that finds entity null changes
\* nothing.
C6_EntityDisconnect ==
    /\ [](\A i \in EntIds : destroyCalls[i] <= 1)
    /\ [][\A e \in Entities : Leaving(e) =>
            /\ entityField'[e] = 0
            /\ \A k \in 1..Len(querySelectorAll(e, attached)) :
                 entityField'[querySelectorAll(e, attached)[k]] = 0
            /\ LET i == entityField[e]
                   top == \A a \in Entities :
                            (a # e /\ Leaving(a) /\ contains(a, e, attached))
                                => entityField[a] = 0
               IN i # 0 =>
                    /\ enState'[i] = "destroyed"
                    /\ destroyCalls'[i] = destroyCalls[i] + (IF top THEN 1 ELSE 0)]_vars
    /\ [][((\E e \in Entities : Leaving(e)) /\ inDoc' = inDoc
             /\ \A e \in Entities : Leaving(e) => entityField[e] = 0) =>
            /\ entityField' = entityField
            /\ enState' = enState
            /\ enParent' = enParent
            /\ destroyCalls' = destroyCalls]_vars

C6_Witness ==
    /\ ~attached["e1"]
    /\ \E i \in EntIds : enOwner[i] = "e1" /\ destroyCalls[i] = 1
    /\ \E i \in EntIds : enOwner[i] = "e2" /\ enState[i] = "destroyed"
                           /\ destroyCalls[i] = 0
    /\ entityField["e1"] = 0 /\ entityField["e2"] = 0

\* C7: the promise ready() returns is not resolved before _onReady was called
\* on the element, it resolves with the element, it stays resolved through
\* later _onReady calls and (dis)connections, and every _onReady call
\* dispatches one 'ready' event.
C7_ReadyPromise ==
    /\ [](\A x \in AsyncEls :
            /\ readyResult(x) # "pending" => (onReadyCalls[x] > 0 /\ readyResult(x) = x)
            /\ onReadyCalls[x] > 0 => readyResult(x) = x
            /\ readyEvents[x] = onReadyCalls[x])
    /\ [][\A x \in AsyncEls :
            /\ readyResult(x) # "pending" => readyResult(x)' = readyResult(x)
            /\ onReadyCalls'[x] >= onReadyCalls[x]]_vars

C7_Witness ==
    /\ onReadyCalls["e2"] > 1
    /\ ~isConnected("e2", attached, inDoc)
    /\ readyResult("e2") = "e2"

\* the pc-asset has no type attribute and its src extension is not in the table
UnsupportedAsset == assetType = "" /\ extensionOf(assetSrc) \notin DOMAIN extToType

\* C9: a pc-asset with no type attribute and a src whose extension is not in
\* the table gets a warning from every createAsset, its asset stays null and no
\* engine Asset is built; the app adds nothing to its registry and goes on to
\* create the materials and entities, build the hierarchy and start the preload
\* whose callback signals ready.
C9_UnsupportedAssetSkipped ==
    /\ [](UnsupportedAsset =>
            /\ assetField = 0
            /\ AssetsMade = 0
            /\ \A r \in AppRuns : ~registry[r]
            /\ warnings = Cardinality({r \in AppRuns : appPc[r] \in {"preload", "done", "threw"}}))
    /\ [][\A r \in AppRuns :
            (UnsupportedAsset /\ appPc[r] = "modules" /\ appPc'[r] # "modules") =>
                /\ warnings' = warnings + 1
                /\ materialField'
                /\ hierarchyReady'
                /\ \A k \in 1..Len(querySelectorAll("app", attached)) :
                     ready'[querySelectorAll("app", attached)[k]]
                /\ appPc'[r] = "preload"]_vars

C9_Witness ==
    /\ UnsupportedAsset
    /\ warnings > 0
    /\ ready["app"]
    /\ \A e \in Entities : ready[e]

\* a page whose script inserts and removes a pc-script below a pc-scripts whose
\* component comes and goes; the attributes string is any text over Chars
ScriptNames == {"", "s1"}
InitScript == InitWith({"other"}, {""}, {<<"scene", "glb">>}, {FALSE}, {""},
                       ScriptNames, Strings, {""}, {UniqueNames})

NextScript ==
    \/ ScriptsAddComponent
    \/ ScriptsDisconnect
    \/ ScriptAdded
    \/ ScriptRemoved

SpecScript == InitScript /\ [][NextScript]_vars

\* a page whose script also edits the attributes and the enabled attribute of
\* the pc-script, before and after its script instance is created
EnabledTexts == {"", "true", "false"}
InitScriptEdit == InitWith({"other"}, {""}, {<<"scene", "glb">>}, {FALSE}, {""},
                           {"s1"}, {<<>>}, {""}, {UniqueNames})

NextScriptEdit ==
    \/ ScriptsAddComponent
    \/ ScriptsDisconnect
    \/ ScriptAdded
    \/ ScriptRemoved
    \/ \E v \in EditTexts : ScriptSetAttributes(v)
    \/ \E v \in EnabledTexts : ScriptSetEnabled(v)

SpecScriptEdit == InitScriptEdit /\ [][NextScriptEdit]_vars

\* a page whose script appends a pc-sound-slot to a pc-sounds or to another
\* element and removes it again
SlotParents == {"sounds", "other"}
InitSound == Init

NextSound ==
    \/ SoundsReady
    \/ \E p \in SlotParents : SlotAttach(p)
    \/ \E k \in SlotRuns : SlotAfterAwait(k)
    \/ SlotDetach
    \/ SoundsDisconnect

SpecSound == InitSound /\ [][NextSound]_vars

\* a page whose script sets attributes of a pc-camera before and after it
\* inserts the element below a pc-entity that is ready
InitCamera == Init

NextCamera ==
    \/ \E a \in BoolAttrs, v \in AttrTexts : CameraSetAttribute(a, v)
    \/ \E v \in AttrTexts : CameraSetEnabled(v)
    \/ CameraAttach
    \/ CameraAddComponent
    \/ CameraFinish

SpecCamera == InitCamera /\ [][NextCamera]_vars

\* a page whose pc-material names the pc-asset as its diffuse map, or gets it
\* named by a script, and is removed from the pc-app or removed with it
InitMaterial == InitWith({"other"}, {""}, {<<"scene", "glb">>}, {FALSE, TRUE}, {""},
                         {"s1"}, {<<>>}, AssetIds, {UniqueNames})

NextMaterial ==
    \/ \E m \in Modules : WasmCallback(m)
    \/ \E r \in AppRuns : AppAfterModules(r)
    \/ \E a \in AppRuns : AssetLoadEvent(a)
    \/ \E r \in AppRuns : AppPreloadCallback(r)
    \/ DetachApp
    \/ AttachApp
    \/ \E v \in AssetIds : MaterialSetMap(v)
    \/ MaterialDetach

SpecMaterial == InitMaterial /\ [][NextMaterial]_vars

\* a page whose scripts add and remove pointer listeners on the pc-entity
\* elements while the user moves and presses the pointer over the canvas, until
\* the pc-app is removed; the component of c is the camera and the pc-asset is
\* lazy, so that the preload waits for nothing
InitPointer == InitWith({"other"}, {""}, {<<"scene", "glb">>}, {TRUE}, {""},
                        {"s1"}, {<<>>}, {""}, EntNames)

\* the pc-entity elements the scripts of the page listen on
ListenEls == {"e1", "e2"}

NextPointer ==
    \/ \E m \in Modules : WasmCallback(m)
    \/ \E r \in AppRuns : AppAfterModules(r)
    \/ \E r \in AppRuns : AppPreloadCallback(r)
    \/ DetachApp
    \/ \E k \in CompRuns : CompAfterApp(k)
    \/ \E k \in CompRuns : CompAfterEntity(k)
    \/ \E k \in CompRuns : CompFinish(k)
    \/ \E e \in ListenEls, ty \in PointerTypes : EntityAddListener(e, ty)
    \/ \E e \in ListenEls, ty \in PointerTypes : EntityRemoveListener(e, ty)
    \/ \E p \in Picks : PointerMove(p)
    \/ \E p \in Picks : PointerDown(p)
    \/ \E p \in Picks : PointerUp(p)

SpecPointer == InitPointer /\ [][NextPointer]_vars

\* the demo page with every track, scene size and sorter of the settings
InitFrame ==
    /\ InitElements({"other"}, {""}, {<<"scene", "glb">>}, {FALSE}, {""}, {"s1"},
                    {<<>>}, {""}, {UniqueNames})
    /\ InitFrameScene(Tracks, {FALSE, TRUE}, SceneSizes, {FALSE, TRUE})
    /\ InitXr({FALSE}, {"absent"}, {"background"})
    /\ InitDecoder

NextFrame ==
    \/ FsInitialize
    \/ FsInitCamera
    \/ SorterUpdated
    \/ FrameEnd
    \/ \E dt \in 0..MaxDelta : Update(dt)
    \/ \E c \in BOOLEAN, s \in Signs : Wheel(c, s)
    \/ CanvasPointer
    \/ KeyDown

SpecFrame == InitFrame /\ [][NextFrame]_vars

\* the demo page with or without a pc-sky, with every type attribute
InitXrPage ==
    /\ InitElements({"other"}, {""}, {<<"scene", "glb">>}, {FALSE}, {""}, {"s1"},
                    {<<>>}, {""}, {UniqueNames})
    /\ InitFrameScene({NoTrack}, {FALSE}, {NoGsplat}, {FALSE})
    /\ InitXr({FALSE, TRUE}, SkyTypes \cup {"absent"}, Colors)
    /\ InitDecoder

NextXr ==
    \/ \E v \in SkyTypes : SkySetType(v)
    \/ \E ty \in XrTypes : XrStart(ty)
    \/ XrEnd

SpecXr == InitXrPage /\ [][NextXr]_vars

\* a page that loads a model compressed with MeshOptimizer
InitDecoderPage ==
    /\ InitElements({"other"}, {""}, {<<"scene", "glb">>}, {FALSE}, {""}, {"s1"},
                    {<<>>}, {""}, {UniqueNames})
    /\ InitFrameScene({NoTrack}, {FALSE}, {NoGsplat}, {FALSE})
    /\ InitXr({FALSE}, {"absent"}, {"background"})
    /\ InitDecoder

NextDecoder ==
    \/ \E n \in Workers : UseWorkers(n)
    \/ \E c \in Counts, bad \in BOOLEAN : DecodeWorker(c, bad)
    \/ \E w \in Workers : WorkerProcess(w)
    \/ \E w \in Workers : WorkerOnMessage(w)
    \/ DecoderReady
    \/ \E v \in Views, ext \in BOOLEAN, bad \in BOOLEAN : ProcessBufferView(v, ext, bad)
    \/ \E v \in Views : BufferResolved(v)
    \/ \E v \in Views : BufferViewThen(v)

SpecDecoder == InitDecoderPage /\ [][NextDecoder]_vars

\* a _loadModel / _loadSkybox that has not run to its end or to its 'load' event
LoadPending(pc) == \E k \in LoadRuns : pc[k] \in {"awaitApp", "awaitLoad"}

\* C8: the pc-model and the pc-sky signal ready only once their load for the
\* current asset has completed: at the step that resolves the ready promise no
\* _loadModel / _loadSkybox is pending, and when the asset exists the model
\* entity has been instantiated, respectively the skybox generated
C8_ReadyAfterLoad ==
    [][ /\ (~ready["m"] /\ ready'["m"]) =>
               /\ ~LoadPending(mPc')
               /\ AssetElement_get(mAsset') # 0 => mEntity' # 0
        /\ (~ready["sky"] /\ ready'["sky"]) =>
               /\ ~LoadPending(skyPc')
               /\ AssetElement_get(skyAsset') # 0 =>
                      (skyScene' # 0 /\ sceneSkybox'[skyScene']) ]_vars

\* a createScript call that reaches the script component with a text that is
\* not JSON
InvalidJsonCall ==
    /\ scCalls' = scCalls + 1
    /\ scComponent'
    /\ scAttrs # <<>>
    /\ ~JSON_parse(scAttrs).ok

InvalidJsonEdit ==
    /\ scAttrs' # scAttrs
    /\ scAttrs' # <<>>
    /\ ~JSON_parse(scAttrs').ok
    /\ scInst.live

C15_ScriptEnabledMirrorsElement ==
    scInst.live => scInstEnabled = scEnabled

\* C12: when the parent of a pc-sound-slot is not a pc-sounds, a warning is
\* logged and slot handling is skipped: the callback that logged the warning
\* does not throw, no slot is added or removed, and soundSlot stays null
C12_WrongParentSkipsSlot ==
    [][(slWarnings' > slWarnings /\ slParent' = "other") =>
          /\ slThrown' = slThrown
          /\ sndSlots' = sndSlots
          /\ ~slSoundSlot']_vars

\* C13: for each pc-camera attribute parsed by string comparison, the text
\* true sets the property to true and the text false sets it to false
C13_CameraBoolAttributes ==
    \A a \in BoolAttrs :
        /\ camAttr[a] = "true" => camField[a]
        /\ camAttr[a] = "false" => ~camField[a]

\* C14: once the component element is ready, the enabled flag of the engine
\* component equals the enabled property of the element, whether the enabled
\* attribute changed before or after the component was added
C14_ComponentEnabledMirrorsElement ==
    (ready["cam"] /\ camComponent) => camCompEnabled = camEnabled

\* something the pc-app builds after its modules exists
AppBuilt ==
    \/ \E r \in AppRuns : appState[r] # "none"
    \/ canvas # 0
    \/ assetField # 0
    \/ materialField
    \/ \E e \in Entities : entityField[e] # 0

\* C16: the pc-app constructs the Application, and creates assets, materials
\* and entities, only after the load promise of every pc-module child has
\* resolved; for a module other than Basis the promise resolves only in the
\* step in which WasmModule.getInstance calls back
C16_AppAfterModules ==
    /\ [](AppBuilt => \A m \in Modules : moduleLoaded[m])
    /\ [][(\E r \in AppRuns : appPc'[r] # appPc[r] /\ appPc[r] = "modules")
             => \A m \in Modules : moduleLoaded[m]]_vars
    /\ [][\A m \in Modules :
             (~moduleLoaded[m] /\ moduleLoaded'[m])
                 => (moduleKind[m] # "Basis" /\ WasmCallback(m))]_vars

C16_Witness ==
    /\ moduleKind = [m \in Modules |-> IF m = 1 THEN "Basis" ELSE "other"]
    /\ \A m \in Modules : moduleLoaded[m]
    /\ thisApp # 0
    /\ appState[thisApp] = "live"
    /\ \E e \in Entities : entityField[e] # 0

\* C17: the step that disconnects the pc-material leaves its material null,
\* and while the material is null no 'load' listener of setMap writes to a
\* material or throws
C17_MaterialUntouchedAfterDisconnect ==
    [][ /\ ((matAttached /\ ~matAttached') \/ (inDoc /\ ~inDoc')) => ~materialField'
        /\ (~materialField /\ ~materialField') =>
               (matThrown' = matThrown /\ ~matMapped') ]_vars

\* the pointer listener types the pointermove handler of the pc-app serves
MoveTypes == {"pointermove", "pointerenter", "pointerleave"}

\* C18: while the canvas exists and some pc-entity of the app has a listener of
\* type pointermove, pointerenter or pointerleave, the pointermove handler of
\* the app, once attached to the canvas, stays attached: a step that adds or
\* removes a listener of one of the three types and leaves a listener of one
\* of them leaves the handler on the canvas
C18_MoveHandlerStaysAttached ==
    [][ ( /\ canvas # 0
          /\ canvas' = canvas
          /\ "pointermove" \in ptrCanvas
          /\ \E e \in Entities, ty \in MoveTypes : ptrListeners'[e][ty] # ptrListeners[e][ty]
          /\ \E e \in Entities, ty \in MoveTypes :
                 contains("app", e, attached') /\ ptrListeners'[e][ty] > 0 )
        => "pointermove" \in ptrCanvas' ]_vars

RECURSIVE nearestElement(_)
\* the pc-entity element of the nearest ancestor-or-self of graph node i that is
\* the entity of a pc-entity of the app, "null" if there is none
nearestElement(i) ==
    IF i <= 0 THEN "null"
    ELSE IF /\ enOwner[i] \in Entities
            /\ entityField[enOwner[i]] = i
            /\ contains("app", enOwner[i], attached)
         THEN enOwner[i]
    ELSE nearestElement(enParent[i])

\* C19: a pointer move the app processes, with A the hovered pc-entity before
\* and B the pc-entity of the nearest ancestor-or-self of the picked node (null
\* if nothing is picked), leaves _hoveredEntity equal to B; if A and B differ
\* it dispatches pointerleave to A exactly if A has pointerleave listeners and
\* pointerenter to B exactly if B has pointerenter listeners, the pointerleave
\* first; if A and B are the same it dispatches neither
C19_HoverEnterLeave ==
    [][ \A p \in Picks :
          (PointerMove(p) /\ pointerProcessed) =>
            LET A == ptrHovered
                B == nearestElement(p.node)
                log == ptrLog'
                at(ev) == {k \in 1..Len(log) : log[k] = ev}
                types == {log[k][1] : k \in 1..Len(log)}
            IN /\ ptrHovered' = B
               /\ A = B => types \cap {"pointerenter", "pointerleave"} = {}
               /\ A # B =>
                    /\ at(<<"pointerleave", A>>) # {}
                           <=> (A # "null" /\ hasListeners(A, "pointerleave"))
                    /\ at(<<"pointerenter", B>>) # {}
                           <=> (B # "null" /\ hasListeners(B, "pointerenter"))
                    /\ \A k \in 1..Len(log) :
                           /\ log[k][1] = "pointerleave" => log[k][2] = A
                           /\ log[k][1] = "pointerenter" => log[k][2] = B
                    /\ \A i \in at(<<"pointerleave", A>>), j \in at(<<"pointerenter", B>>) :
                           i < j ]_vars

\* C20: a pointerup the app processes on a picked node whose pointerdown is
\* dispatched to a pc-entity element that also has a pointerup listener is
\* dispatched to that element
C20_UpReachesDownTarget ==
    [][ \A p \in Picks :
          ( /\ PointerUp(p)
            /\ pointerProcessed
            /\ downTarget(p) # "null"
            /\ hasListeners(downTarget(p), "pointerup") )
          => ptrLog' = <<(<<"pointerup", downTarget(p)>>)>> ]_vars

\* C21: when the page connects a subtree into the pc-app whose hierarchy is
\* ready and whose Application is live, every pc-entity of the subtree then has
\* an engine entity, and that entity is the only live engine entity that was
\* created for the element
C21_OneEntityPerElement ==
    [][ \A x \in Nodes :
          ( /\ ~attached[x] /\ attached'[x]
            /\ hierarchyReady
            /\ thisApp # 0 /\ appState[thisApp] = "live"
            /\ isConnected(x, attached', inDoc) )
          => \A e \in Entities :
                contains(x, e, attached') =>
                  /\ entityField'[e] # 0
                  /\ {i \in EntIds : enState'[i] = "live" /\ enOwner'[i] = e}
                         = {entityField'[e]} ]_vars

\* C22: at most one model entity instantiated by the pc-model is live, and
\* none is live once the element is out of the document and none of its loads
\* is pending
C22_OneModelEntity ==
    /\ Cardinality({j \in InstIds : mInst[j] = "live"}) <= 1
    /\ (~mAtt /\ ~LoadPending(mPc)) => \A j \in InstIds : mInst[j] # "live"

\* C23: the camera animation starts only in the step in which the 'frameend'
\* listener runs, which the sorter's 'updated' listener registered before, and
\* only if there is a camera animation track; the body of the 'updated'
\* listener and that of the 'frameend' listener each run at most once
C23_AnimationStartsAfterFirstFrame ==
    /\ [][(~fsAnimating /\ fsAnimating') =>
            /\ fsTrack # NoTrack
            /\ fsUpdated = 1
            /\ fsFrameOn = 1
            /\ fsFirst' = fsFirst + 1]_vars
    /\ [](fsUpdated <= 1 /\ fsFirst <= 1 /\ fsFirst <= fsUpdated)

C23_Witness ==
    fsAnimating /\ fsUpdated = 1 /\ fsFirst = 1 /\ ~fsSorterOn /\ fsFrameOn = 0

\* C24: after every wheel event that handleWheel handled the animation is not
\* running
C24_WheelCancelsAnimation ==
    [][fsWheels' # fsWheels => ~fsAnimating']_vars

\* C25: once the interaction handler of initCamera has seen the first wheel,
\* pointerdown or contextmenu event of the canvas, the animation is not running
\* and the track cursor does not move
C25_NoAnimationAfterInteraction ==
    /\ []((fsPc = "camera" /\ ~fsHandler) => ~fsAnimating)
    /\ [][(fsPc = "camera" /\ ~fsHandler) => fsTime' = fsTime]_vars

\* C26: every time the update handler passes to spline.evaluate lies between 0
\* and the duration of the track
C26_EvaluateTimeInTrack ==
    \A k \in 1..Len(fsEval) : 0 <= fsEval[k] /\ fsEval[k] <= fsTrack.duration

\* C27: a wheel event leaves targetDistance between minDistance and
\* maxDistance; the first one initialises the distances, from the size of the
\* scene or to 5, and a later one leaves currentDistance as it is and
\* initialises nothing
C27_TargetDistanceClamped ==
    /\ [][fsWheels' # fsWheels =>
            /\ minDistance <= fsTarget' /\ fsTarget' <= maxDistance
            /\ fsTarget = Null =>
                 /\ fsDistInits' = fsDistInits + 1
                 /\ fsCurrent' = IF fsScene # NoGsplat THEN 2 * fsScene ELSE 500
            /\ fsTarget # Null =>
                 /\ fsDistInits' = fsDistInits
                 /\ fsCurrent' = fsCurrent]_vars
    /\ [](fsDistInits = IF fsWheels > 0 THEN 1 ELSE 0)
    /\ [](fsWheels = 0 => fsTarget = Null)

C27_Witness ==
    /\ fsWheels = MaxWheels
    /\ fsScene = 10000
    /\ fsTarget = maxDistance
    /\ fsCurrent = 20000
    /\ fsDistInits = 1

\* C28: when an immersive-ar session ends, the clear colour of the camera and
\* the type of the pc-sky are what they were when the session started and
\* app.autoRender is false; the start and the end of a session of another type
\* change none of the three
C28_ArSessionRestores ==
    [][ /\ (xrType = "immersive-ar" /\ xrType' = "none") =>
               /\ xrClear' = xrBefore.clear
               /\ xrSkyType' = xrBefore.sky
               /\ ~xrAutoRender'
        /\ ("immersive-vr" \in {xrType, xrType'}) =>
               UNCHANGED <<xrClear, xrSkyType, xrAutoRender>> ]_vars

\* the requests posted to worker w whose response has not been delivered
Outstanding(w) == {id \in RequestIds : rqPosted[id] = w /\ ~rqAnswered[id]}

RECURSIVE SumCounts(_)
SumCounts(ids) ==
    IF ids = {} THEN 0
    ELSE LET id == CHOOSE i \in ids : TRUE
         IN rqCount[id] + SumCounts(ids \ {id})

\* C29: for every worker, pending is the sum of the counts of the requests
\* posted to it and not yet answered, and its requests table holds exactly
\* these requests; the promise of a request is settled exactly once, by the
\* response that carries its id (rejected exactly when the data is
\* malformed); decodeWorker posts to a worker whose pending is minimal
C29_WorkerPoolAccounting ==
    /\ [](\A w \in Workers :
            /\ wkRequests[w] = Outstanding(w)
            /\ wkPending[w] = SumCounts(Outstanding(w)))
    /\ [](\A id \in RequestIds :
            /\ Len(rqSettled[id]) = (IF rqAnswered[id] THEN 1 ELSE 0)
            /\ rqAnswered[id] =>
                  rqSettled[id] = <<IF rqBad[id] THEN "reject" ELSE "resolve">>)
    /\ [][\A w \in Workers :
            (requestId' # requestId /\ wkRequests'[w] # wkRequests[w]) =>
                \A u \in 1..wkCount : wkPending[w] <= wkPending[u]]_vars

C29_Witness ==
    /\ wkCount = 2
    /\ requestId = MaxRequests
    /\ rqPosted[1] = 2
    /\ rqAnswered[0] /\ rqSettled[0] = <<"reject">>
    /\ ~rqAnswered[1] /\ wkPending[2] = 2
    /\ rqPosted[2] = 1 /\ wkPending[1] = 1

\* C30: the continuation of a call of processBufferView is called at most
\* once; a call for a view without the extension has called it with
\* (null, null) when it returns; a call for a view with the extension has
\* called it once when the then-callback has run, also with malformed data
C30_ContinuationOnce ==
    \A v \in Views :
        /\ Len(bvConts[v]) <= 1
        /\ (bvPc[v] # "none" /\ ~bvExt[v]) => bvConts[v] = << <<"null", "null">> >>
        /\ bvPc[v] \in {"done", "threw"} => Len(bvConts[v]) = 1

====
